---- MODULE Spec2Model ----
(***************************************************************************)
(* Model of the sandboxed multi-language benchmark engine of               *)
(* LLM-code-porting:                                                       *)
(*   setup_environment.py      DockerBenchmarkManager, get_manager and the *)
(*                             module-level convenience functions          *)
(*   docker_setup/benchmark.py the in-sandbox runner                       *)
(*   llm_porter.py, ui.py      the placeholder texts of the code boxes     *)
(*   benchmark_runner.py       execute_and_benchmark and its report        *)
(*                                                                         *)
(* The specifications share the variables:                                 *)
(*   Spec        one caller using the manager sequentially; every Docker / *)
(*               filesystem call of run_benchmark can fault                *)
(*   SpecRunner  one invocation of benchmark.py main()                     *)
(*   SpecAll     the behaviours of Spec and those of SpecRunner            *)
(*   SpecConc    several threads inside get_manager()                      *)
(*   SpecParser, SpecE2E, SpecPrompt, SpecTimed                            *)
(*               the parser of the captured output, a call end to end, the *)
(*               convenience functions, the stage times of the runner      *)
(*   SpecSteps   main() of benchmark.py, one step per child process event  *)
(*   SpecFiles   run_benchmark on the requests the UI can send             *)
(*   SpecReport  execute_and_benchmark after run_benchmark returned        *)
(***************************************************************************)
EXTENDS Integers, Sequences, FiniteSets, TLC

\* ------------------------------------------------------------------ bounds
MaxCalls == 3
MaxThreads == 2
MaxLines == 4

\* ------------------------------------------------------------------- slots
Slots == {"python", "cpp", "java", "rust"}

\* order in which run_benchmark writes the source files
WriteOrder == <<"python", "cpp", "java", "rust">>

\* order in which benchmark.py main() processes the slots
RunOrder == <<"python", "cpp", "rust", "java">>

\* file name of each slot inside the workspace / under /app/code
FileName == [python |-> "code.py", cpp |-> "code.cpp",
             java |-> "Main.java", rust |-> "code.rs"]

\* ----------------------------------------------------------------- strings
\* A Python str is a sequence of characters; an argument may also be None.
WS == {" ", "\n"}

RECURSIVE lstrip(_)
lstrip(s) == IF s # <<>> /\ Head(s) \in WS THEN lstrip(Tail(s)) ELSE s

RECURSIVE rstrip(_)
rstrip(s) == IF s # <<>> /\ s[Len(s)] \in WS
             THEN rstrip(SubSeq(s, 1, Len(s) - 1)) ELSE s

strip(s) == rstrip(lstrip(s))

startswith(s, p) == Len(s) >= Len(p) /\ SubSeq(s, 1, Len(p)) = p

NoneBlob == [none |-> TRUE, s |-> <<>>]
Str(s) == [none |-> FALSE, s |-> s]

\* mutant: a blob of white space counts as content
Truthy_NonEmpty(b) ==
    ~b.none /\ b.s # <<>>

\* truthiness of "x and x.strip()"
Truthy(b) == ~b.none /\ b.s # <<>> /\ strip(b.s) # <<>>

\* mutant: a file is written for every blob that is not None
ShouldWrite_NotNone(slot, b) ==
    ~b.none

\* setup_environment.py:147,153,159,165: the condition under which a slot's
\* file is written
ShouldWrite(slot, b) ==
    IF slot = "python" THEN Truthy(b)
    ELSE Truthy(b) /\ ~startswith(b.s, <<"/", "/">>)

\* the requests of the model: python is empty or code, the compiled slots
\* are None, a placeholder comment or code
Requests == [python : {Str(<<>>), Str(<<"x">>)},
             cpp : {NoneBlob, Str(<<"/", "/", "e">>), Str(<<"x">>)},
             java : {Str(<<" ">>), Str(<<"x">>)},
             rust : {Str(<<"/", "/", "e">>), Str(<<"x">>)}]

\* ------------------------------------------------------ captured output
\* The decoded container output is a sequence of tokens: "{" and "}" are
\* the braces, "k" and "j" stand for brace-free JSON members, "d" for
\* diagnostic text that is not JSON, " " for a blank and "\n" ends a line.
\* In text the member "k" is written as the two pieces "<" and ">", cut
\* inside one of its string literals: only the pieces next to each other
\* are the member.  "n", "m", "s" and "f" are the members benchmark.py
\* writes for a slot (see MemberText).
JsonTok == {"{", "}", "k", "j", "n", "m", "s", "f"}

\* the pieces of a member that are adjacent in the text form the member
Merge(s) ==
    LET RECURSIVE F(_)
        F(t) == IF t = <<>> THEN <<>>
                ELSE IF Len(t) >= 2 /\ t[1] = "<" /\ t[2] = ">"
                THEN <<"k">> \o F(SubSeq(t, 3, Len(t)))
                ELSE <<Head(t)>> \o F(Tail(t))
    IN F(s)

\* json.dumps (benchmark.py:235): one line, members separated by ", "
JsonDumps(v) ==
    LET RECURSIVE F(_)
        F(t) == IF t = <<>> THEN <<>>
                ELSE IF Head(t) = "k" THEN <<"<", ">">> \o F(Tail(t))
                ELSE IF Head(t) = "j" THEN <<" ", "j">> \o F(Tail(t))
                ELSE <<Head(t)>> \o F(Tail(t))
    IN F(v)

Join(lines) ==
    LET RECURSIVE J(_)
        J(ls) == IF ls = <<>> THEN <<>>
                 ELSE IF Len(ls) = 1 THEN ls[1]
                 ELSE ls[1] \o <<"\n">> \o J(Tail(ls))
    IN J(lines)

NoWS(s) == LET RECURSIVE F(_)
               F(t) == IF t = <<>> THEN <<>>
                       ELSE IF Head(t) \in WS THEN F(Tail(t))
                       ELSE <<Head(t)>> \o F(Tail(t))
           IN F(s)

Depth(t, i) == Cardinality({n \in 1..i : t[n] = "{"})
               - Cardinality({n \in 1..i : t[n] = "}"})

\* json.loads: the text is one JSON object; the value is represented by its
\* blank-free token sequence.  NoneJson stands for "raised JSONDecodeError".
\* Blanks and line ends are skipped between tokens; a member whose pieces
\* are separated is not valid JSON.
NoneJson == <<>>

JsonLoads(s) ==
    LET t == NoWS(Merge(s)) IN
    IF /\ Len(t) >= 2
       /\ t[1] = "{"
       /\ \A i \in 1..Len(t) : t[i] \in JsonTok
       /\ \A i \in 1..(Len(t) - 1) : Depth(t, i) > 0
       /\ Depth(t, Len(t)) = 0
    THEN t ELSE NoneJson

\* output.strip().split('\n')
SplitLines(s) ==
    LET RECURSIVE Sp(_, _)
        Sp(t, cur) == IF t = <<>> THEN <<cur>>
                      ELSE IF Head(t) = "\n" THEN <<cur>> \o Sp(Tail(t), <<>>)
                      ELSE Sp(Tail(t), Append(cur, Head(t)))
    IN Sp(s, <<>>)

OutputLines(out) == SplitLines(strip(out))

\* mutant: the lines are scanned from the first one
Strategy1_Forward(lines) ==
    LET RECURSIVE S(_)
        S(i) == IF i > Len(lines) THEN NoneJson
                ELSE LET line == strip(lines[i]) IN
                     IF startswith(line, <<"{">>) /\ JsonLoads(line) # NoneJson
                     THEN JsonLoads(line)
                     ELSE S(i + 1)
    IN S(1)

\* Strategy 1 (setup_environment.py:206-215): scanning from the last line,
\* the first line that starts with "{" and parses
Strategy1(lines) ==
    LET RECURSIVE S(_)
        S(i) == IF i = 0 THEN NoneJson
                ELSE LET line == strip(lines[i]) IN
                     IF startswith(line, <<"{">>) /\ JsonLoads(line) # NoneJson
                     THEN JsonLoads(line)
                     ELSE S(i - 1)
    IN S(Len(lines))

HasTok(line, c) == \E n \in 1..Len(line) : line[n] = c

\* Strategy 2 (setup_environment.py:218-234): the block from the first line
\* containing "{" to the last line containing "}"
Strategy2(lines) ==
    LET starts == {i \in 1..Len(lines) : HasTok(lines[i], "{")}
        ends == {i \in 1..Len(lines) : HasTok(lines[i], "}")}
    IN IF starts = {} \/ ends = {} THEN NoneJson
       ELSE LET start_idx == CHOOSE i \in starts : \A j \in starts : i <= j
                end_idx == CHOOSE i \in ends : \A j \in ends : i >= j
            IN JsonLoads(Join(SubSeq(lines, start_idx, end_idx)))

\* mutant: there is no fallback to the block scan
ParseOutput_NoFallback(out) ==
    Strategy1(OutputLines(out))

\* setup_environment.py:201-234: Strategy 1, then Strategy 2
ParseOutput(out) ==
    LET lines == OutputLines(out)
        first == Strategy1(lines)
    IN IF first # NoneJson THEN first ELSE Strategy2(lines)

\* the outputs container.logs() returns in Spec
Outputs == { <<>>,
             <<"d">>,
             <<"d", "\n", "{", "k", "}", "\n">>,
             <<"d", "\n", "{", "\n", "k", "\n", "}", "\n", "d">>,
             <<"{", "d", "\n">> }


\* ---------------------------------------------------------------- results
\* Dicts are records.  A message is the sequence of its non-empty parts, so
\* that f"Runtime error: {stderr}" and str(e) keep their (possibly empty)
\* variable part apart from the fixed text.
Cat(a, b) == (IF a = "" THEN <<>> ELSE <<a>>) \o (IF b = "" THEN <<>> ELSE <<b>>)
Msg(a) == Cat(a, "")

\* None and a float value of the execution_time key
None == <<>>
Float(x) == <<x>>

\* A LanguageResult built on the host (no execution_time key):
HostFail(msg) == [success |-> FALSE, error |-> Msg(msg)]

\* setup_environment.py:132-138
SetupFailed ==
    [error |-> Msg("Failed to build Docker image"),
     python |-> HostFail("Docker setup failed"),
     cpp |-> HostFail("Docker setup failed"),
     java |-> HostFail("Docker setup failed"),
     rust |-> HostFail("Docker setup failed")]

\* mutant: the parse-failure result does not carry the captured output
ParseFailure_DropsOutput(out, code) ==
    [error |-> Msg("Failed to parse benchmark results"),
     output |-> <<>>, exit_code |-> code]

\* setup_environment.py:240-244
ParseFailure(out, code) ==
    [error |-> Msg("Failed to parse benchmark results"),
     output |-> out, exit_code |-> code]

\* setup_environment.py:261 and :265
ErrorDict(msg) == [error |-> Msg(msg)]

\* setup_environment.py:344-350
WrapperError(msg) ==
    [error |-> Msg(msg), python |-> HostFail(msg), cpp |-> HostFail(msg),
     java |-> HostFail(msg), rust |-> HostFail(msg)]

NoRet == [kind |-> "none"]
Return(v) == [kind |-> "return", val |-> v]
Raise(e) == [kind |-> "raise", e |-> e]

\* --------------------------------------------------------------- variables
VARIABLES
    imageExists,       \* Docker: the image code-porter-benchmark:latest exists
    manager_instance,  \* _manager_instance is not None
    image_built,       \* self.image_built of the manager
    pc,                \* position of the caller inside run_benchmark
    entry,             \* "method" or "module": which run_benchmark was called
    request,           \* the four source blobs of the call
    temp_dir,          \* "unset", "exists", "removed"
    files_written,     \* slots whose file is in the workspace
    container,         \* "none", "running", "exited", "removed"
    exit_code,
    output,            \* container.logs() of the normal path
    ret,               \* what the last call returned or raised
    exc,               \* the exception caught by the handler at line 249
    trace,             \* Docker / filesystem calls made by the current call
    last,              \* the last call made and whether it returned True
    prev,              \* what the call before it did: "ensured" (an
                       \* ensure_image_exists that returned True),
                       \* "build_failed", "other" or "none"
    nCalls,
    \* the in-sandbox runner
    code_dir,          \* slots whose source file exists under /app/code
    rpc,               \* "start", "run", "emitted", "aborted"
    idx,               \* index into RunOrder of the slot being processed
    results,           \* the results dict of main()
    procs,             \* processes started, in order
    stdout,            \* lines printed to standard output
    \* threads inside get_manager
    tpc,               \* thread -> "enter", "construct", "ensure", "build", "done"
    tmgr,              \* thread -> id of the manager it constructed (0: none)
    instance,          \* _manager_instance: 0 is None, else a manager id
    created,           \* number of DockerBenchmarkManager objects constructed
    building,          \* managers whose images.build is running
    builds,            \* number of images.build calls started
    built,             \* manager id -> image_built
    \* the convenience functions
    language,          \* argument of the last get_compile_command call
    \* time
    clock,             \* seconds since benchmark.py started in the container
    \* the steps of main() in benchmark.py
    stage,             \* "check", "entered", "compiling", "compiled", "running"
    alive,             \* child processes that were started and have not ended
    start_time,        \* start_time of the function being executed
    log,               \* what main() did so far, in order
    \* execute_and_benchmark in benchmark_runner.py
    rep,               \* "idle", "called", "extracted", "done"
    bench_results,     \* the dict run_benchmark returned to it
    lang_data,         \* the list _extract_language_data built
    report             \* the (figure, markdown) it returned

orchVars == <<imageExists, manager_instance, image_built, pc, entry, request,
              temp_dir, files_written, container, exit_code, output, ret,
              exc, trace, last, prev, nCalls>>
runnerVars == <<code_dir, rpc, idx, results, procs, stdout>>
concVars == <<tpc, tmgr, instance, created, building, builds, built>>
promptVars == <<language>>
timeVars == <<clock>>
stepVars == <<stage, alive, start_time, log>>
reportVars == <<rep, bench_results, lang_data, report>>
vars == <<orchVars, runnerVars, concVars, promptVars, timeVars, stepVars,
          reportVars>>

\* ------------------------------------------------- provisioner (one manager)
\* The operators below work on m = [manager_instance, image_built,
\* imageExists, trace] and return the new m together with the return value.

\* mutant: the flag is set before the build is known to have succeeded
build_image_FlagFirst(m, ok) ==
    [m |-> [m EXCEPT !.trace = Append(@, IF ok THEN "images.build:ok"
                                         ELSE "images.build:failed"),
                     !.image_built = TRUE,
                     !.imageExists = IF ok THEN TRUE ELSE @],
     ret |-> ok]

\* setup_environment.py:58-94; ok: images.build succeeded
build_image(m, ok) ==
    [m |-> [m EXCEPT !.trace = Append(@, IF ok THEN "images.build:ok"
                                         ELSE "images.build:failed"),
                     !.image_built = IF ok THEN TRUE ELSE @,
                     !.imageExists = IF ok THEN TRUE ELSE @],
     ret |-> ok]

\* mutant: the image is built without looking whether it exists
ensure_image_exists_AlwaysBuilds(m, fault, ok) ==
    IF fault
    THEN [m |-> [m EXCEPT !.trace = Append(@, "images.get:error")],
          ret |-> FALSE]
    ELSE build_image([m EXCEPT !.trace = Append(@, "images.get:notfound")],
                     ok)

\* setup_environment.py:96-108; fault: images.get raised something other
\* than ImageNotFound
ensure_image_exists(m, fault, ok) ==
    IF fault
    THEN [m |-> [m EXCEPT !.trace = Append(@, "images.get:error")],
          ret |-> FALSE]
    ELSE IF m.imageExists
    THEN [m |-> [m EXCEPT !.trace = Append(@, "images.get:found"),
                          !.image_built = TRUE],
          ret |-> TRUE]
    ELSE build_image([m EXCEPT !.trace = Append(@, "images.get:notfound")],
                     ok)

\* mutant: the image is removed and the flag is left as it was
cleanup_KeepsFlag(m, ok) ==
    IF ~m.image_built THEN m
    ELSE LET m1 == [m EXCEPT !.trace = Append(@, "images.remove")] IN
         IF m.imageExists /\ ok
         THEN [m1 EXCEPT !.imageExists = FALSE]
         ELSE m1

\* setup_environment.py:274-285; ok: images.remove succeeded
cleanup(m, ok) ==
    IF ~m.image_built THEN m
    ELSE LET m1 == [m EXCEPT !.trace = Append(@, "images.remove")] IN
         IF m.imageExists /\ ok
         THEN [m1 EXCEPT !.imageExists = FALSE, !.image_built = FALSE]
         ELSE m1

\* setup_environment.py:302-309; ctorOk: docker.from_env() and ping() worked.
\* raised: DockerBenchmarkManager() raised RuntimeError.
get_manager(m, ctorOk, fault, ok) ==
    IF m.manager_instance THEN [m |-> m, raised |-> FALSE]
    ELSE IF ~ctorOk THEN [m |-> m, raised |-> TRUE]
    ELSE [m |-> ensure_image_exists(
                    [m EXCEPT !.manager_instance = TRUE,
                              !.image_built = FALSE], fault, ok).m,
          raised |-> FALSE]

\* setup_environment.py:311-316
cleanup_manager(m, ok) ==
    IF m.manager_instance
    THEN [cleanup(m, ok) EXCEPT !.manager_instance = FALSE]
    ELSE m

M == [manager_instance |-> manager_instance, image_built |-> image_built,
      imageExists |-> imageExists, trace |-> trace]

SetM(m) ==
    /\ manager_instance' = m.manager_instance
    /\ image_built' = m.image_built
    /\ imageExists' = m.imageExists
    /\ trace' = m.trace

FreshM == [M EXCEPT !.trace = <<>>]


\* ------------------------------------------------------------ orchestrator
Faults == BOOLEAN

\* the state of one call is cleared when the next call starts
ClearCall ==
    /\ temp_dir' = "unset"
    /\ files_written' = {}
    /\ container' = "none"
    /\ exit_code' = -1
    /\ output' = <<>>
    /\ exc' = ""

\* the caller is between two calls; the behaviour follows the host
\* application, not a benchmark.py process
CanCall == pc = "idle" /\ nCalls < MaxCalls /\ rpc = "start"

Last(seq) == seq[Len(seq)]

\* summary of the call that has just ended, kept for the next one
Summary ==
    IF last.op = "ensure_image_exists" /\ last.ok THEN "ensured"
    ELSE IF trace # <<>> /\ Last(trace) = "images.build:failed"
    THEN "build_failed"
    ELSE IF last.op = "none" THEN "none"
    ELSE "other"

\* an atomic call of the provisioner API leaves the caller idle
Atomic(op, m, r, ok) ==
    /\ SetM(m)
    /\ ret' = r
    /\ last' = [op |-> op, ok |-> ok]
    /\ prev' = Summary
    /\ nCalls' = nCalls + 1
    /\ ClearCall
    /\ UNCHANGED <<pc, entry, request>>

\* get_manager() called by the application (main.py:508)
CallGetManager ==
    /\ CanCall
    /\ \E ctorOk \in BOOLEAN, fault \in Faults, ok \in BOOLEAN :
         LET g == get_manager(FreshM, ctorOk, fault, ok) IN
         Atomic("get_manager", g.m,
                IF g.raised THEN Raise("Docker connection failed")
                ELSE Return("manager"), FALSE)
    /\ UNCHANGED <<runnerVars, concVars, promptVars, timeVars, stepVars,
                 reportVars>>

\* manager.ensure_image_exists()
CallEnsure ==
    /\ CanCall /\ manager_instance
    /\ \E fault \in Faults, ok \in BOOLEAN :
         LET e == ensure_image_exists(FreshM, fault, ok) IN
         Atomic("ensure_image_exists", e.m, Return(e.ret), e.ret)
    /\ UNCHANGED <<runnerVars, concVars, promptVars, timeVars, stepVars,
                 reportVars>>

\* manager.build_image()
CallBuild ==
    /\ CanCall /\ manager_instance
    /\ \E ok \in BOOLEAN :
         LET b == build_image(FreshM, ok) IN
         Atomic("build_image", b.m, Return(b.ret), b.ret)
    /\ UNCHANGED <<runnerVars, concVars, promptVars, timeVars, stepVars,
                 reportVars>>

\* manager.cleanup()
CallCleanup ==
    /\ CanCall /\ manager_instance
    /\ \E ok \in BOOLEAN :
         Atomic("cleanup", cleanup(FreshM, ok), Return("None"), FALSE)
    /\ UNCHANGED <<runnerVars, concVars, promptVars, timeVars, stepVars,
                 reportVars>>

\* cleanup_manager()
CallCleanupManager ==
    /\ CanCall
    /\ \E ok \in BOOLEAN :
         Atomic("cleanup_manager", cleanup_manager(FreshM, ok), Return("None"),
                FALSE)
    /\ UNCHANGED <<runnerVars, concVars, promptVars, timeVars, stepVars,
                 reportVars>>

\* run_benchmark is entered: the method on the existing manager, or the
\* module-level function (setup_environment.py:337)
CallRunBenchmark ==
    /\ CanCall
    /\ \E e \in {"method", "module"}, req \in Requests :
         /\ e = "method" => manager_instance
         /\ entry' = e
         /\ request' = req
         /\ pc' = IF e = "module" THEN "get_manager" ELSE "ensure"
    /\ ret' = NoRet
    /\ trace' = <<>>
    /\ last' = [op |-> "run_benchmark", ok |-> FALSE]
    /\ prev' = Summary
    /\ nCalls' = nCalls + 1
    /\ ClearCall
    /\ UNCHANGED <<imageExists, manager_instance, image_built>>
    /\ UNCHANGED <<runnerVars, concVars, promptVars, timeVars, stepVars,
                 reportVars>>

\* the call is over with return value or exception r
Finish(r) ==
    /\ pc' = "idle"
    /\ ret' = r

\* the call goes on at p
Continue(p) ==
    /\ pc' = p
    /\ UNCHANGED ret

\* mutant: a return inside the try block skips the finally block
LeaveTry_NoFinally(r) ==
    /\ pc' = "idle"
    /\ ret' = r

\* "return r" inside the try block of lines 143-265: the finally block of
\* lines 267-272 runs before the call returns
LeaveTry(r) ==
    /\ pc' = "finally"
    /\ ret' = r

\* mutant: an exception leaving the method is wrapped for every caller
Propagate_WrapsAlways(e) ==
    Finish(Return(WrapperError(e)))

\* an exception e leaves DockerBenchmarkManager.run_benchmark: the
\* module-level function turns it into a result (lines 342-350), a caller of
\* the method sees it
Propagate(e) ==
    Finish(IF entry = "module" THEN Return(WrapperError(e)) ELSE Raise(e))

\* setup_environment.py:340
RbGetManager ==
    /\ pc = "get_manager"
    /\ \E ctorOk \in BOOLEAN, fault \in Faults, ok \in BOOLEAN :
         LET g == get_manager(M, ctorOk, fault, ok) IN
         /\ SetM(g.m)
         /\ IF g.raised
            THEN Propagate("Docker connection failed")
            ELSE Continue("ensure")
    /\ UNCHANGED <<entry, request, temp_dir, files_written, container,
                   exit_code, output, exc, last, prev, nCalls>>
    /\ UNCHANGED <<runnerVars, concVars, promptVars, timeVars, stepVars,
                 reportVars>>

\* mutant: a failed ensure_image_exists does not end the call
EnsureGate_FallThrough(m, fault, ok) ==
    IF m.image_built THEN [m |-> m, go |-> TRUE]
    ELSE [m |-> ensure_image_exists(m, fault, ok).m, go |-> TRUE]

\* the result of lines 130-138: TRUE when the call goes on to mkdtemp
EnsureGate(m, fault, ok) ==
    IF m.image_built THEN [m |-> m, go |-> TRUE]
    ELSE LET e == ensure_image_exists(m, fault, ok) IN
         [m |-> e.m, go |-> e.ret]

\* setup_environment.py:129-138
RbEnsure ==
    /\ pc = "ensure"
    /\ \E fault \in Faults, ok \in BOOLEAN :
         LET g == EnsureGate(M, fault, ok) IN
         /\ SetM(g.m)
         /\ IF g.go
            THEN Continue("mkdtemp")
            ELSE Finish(Return(SetupFailed))
    /\ UNCHANGED <<entry, request, temp_dir, files_written, container,
                   exit_code, output, exc, last, prev, nCalls>>
    /\ UNCHANGED <<runnerVars, concVars, promptVars, timeVars, stepVars,
                 reportVars>>

\* setup_environment.py:141, outside the try block
RbMkdtemp ==
    /\ pc = "mkdtemp"
    /\ trace' = Append(trace, "mkdtemp")
    /\ \E fault \in Faults :
         IF fault
         THEN Propagate("mkdtemp failed") /\ UNCHANGED temp_dir
         ELSE /\ temp_dir' = "exists"
              /\ Continue("write")
    /\ UNCHANGED <<imageExists, manager_instance, image_built, entry, request,
                   files_written, container, exit_code, output, exc, last,
                   prev, nCalls>>
    /\ UNCHANGED <<runnerVars, concVars, promptVars, timeVars, stepVars,
                 reportVars>>

\* the slots written when the write of the n-th file faults (n = 5: none does)
WrittenBefore(req, n) ==
    {WriteOrder[i] : i \in {j \in 1..4 : j < n /\ ShouldWrite(WriteOrder[j], req[WriteOrder[j]])}}

\* setup_environment.py:144-169
RbWrite ==
    /\ pc = "write"
    /\ \E n \in 1..5 :
         /\ n <= 4 => ShouldWrite(WriteOrder[n], request[WriteOrder[n]])
         /\ files_written' = WrittenBefore(request, n)
         /\ trace' = Append(trace, "write")
         /\ IF n <= 4
            THEN LeaveTry(Return(ErrorDict("write failed")))
            ELSE Continue("launch")
    /\ UNCHANGED <<imageExists, manager_instance, image_built, entry, request,
                   temp_dir, container, exit_code, output, exc, last, prev,
                   nCalls>>
    /\ UNCHANGED <<runnerVars, concVars, promptVars, timeVars, stepVars,
                 reportVars>>

\* setup_environment.py:174-184
RbLaunch ==
    /\ pc = "launch"
    /\ trace' = Append(trace, "containers.run")
    /\ \E fault \in Faults :
         IF fault
         THEN /\ LeaveTry(Return(ErrorDict("launch failed")))
              /\ UNCHANGED container
         ELSE /\ Continue("wait")
              /\ container' = "running"
    /\ UNCHANGED <<imageExists, manager_instance, image_built, entry, request,
                   temp_dir, files_written, exit_code, output, exc, last,
                   prev, nCalls>>
    /\ UNCHANGED <<runnerVars, concVars, promptVars, timeVars, stepVars,
                 reportVars>>

\* setup_environment.py:188-189
RbWait ==
    /\ pc = "wait"
    /\ trace' = Append(trace, "wait")
    /\ \E outcome \in {"exited", "timeout", "error"} :
         IF outcome = "exited"
         THEN /\ \E code \in {0, 1} : exit_code' = code
              /\ container' = "exited"
              /\ Continue("logs")
              /\ UNCHANGED exc
         ELSE /\ exc' = outcome
              /\ Continue("handler")
              /\ UNCHANGED <<exit_code, container>>
    /\ UNCHANGED <<imageExists, manager_instance, image_built, entry, request,
                   temp_dir, files_written, output, last, prev, nCalls>>
    /\ UNCHANGED <<runnerVars, concVars, promptVars, timeVars, stepVars,
                 reportVars>>

\* setup_environment.py:192
RbLogs ==
    /\ pc = "logs"
    /\ trace' = Append(trace, "logs")
    /\ \E fault \in Faults :
         IF fault
         THEN exc' = "logs failed" /\ Continue("handler") /\ UNCHANGED output
         ELSE /\ \E out \in Outputs : output' = out
              /\ Continue("remove")
              /\ UNCHANGED exc
    /\ UNCHANGED <<imageExists, manager_instance, image_built, entry, request,
                   temp_dir, files_written, container, exit_code, last, prev,
                   nCalls>>
    /\ UNCHANGED <<runnerVars, concVars, promptVars, timeVars, stepVars,
                 reportVars>>

\* setup_environment.py:195-198
RbRemove ==
    /\ pc = "remove"
    /\ trace' = Append(trace, "remove")
    /\ \E fault \in Faults :
         container' = IF fault THEN container ELSE "removed"
    /\ Continue("parse")
    /\ UNCHANGED <<imageExists, manager_instance, image_built, entry, request,
                   temp_dir, files_written, exit_code, output, exc, last,
                   prev, nCalls>>
    /\ UNCHANGED <<runnerVars, concVars, promptVars, timeVars, stepVars,
                 reportVars>>

\* setup_environment.py:200-247
RbParse ==
    /\ pc = "parse"
    /\ LET json_output == ParseOutput(output) IN
       LeaveTry(IF json_output = NoneJson
                THEN Return(ParseFailure(output, exit_code))
                ELSE Return([json |-> json_output]))
    /\ UNCHANGED <<imageExists, manager_instance, image_built, entry, request,
                   temp_dir, files_written, container, exit_code, output, exc,
                   trace, last, prev, nCalls>>
    /\ UNCHANGED <<runnerVars, concVars, promptVars, timeVars, stepVars,
                 reportVars>>

\* mutant: the handler removes the container, then asks for its logs
HandlerCalls_RemoveFirst(logsFault) ==
    <<"remove", "logs">>

\* the Docker calls of the handler at lines 251-259: logs, then remove in the
\* same try block
HandlerCalls(logsFault) ==
    IF logsFault THEN <<"logs">> ELSE <<"logs", "remove">>

\* setup_environment.py:249-261
RbHandler ==
    /\ pc = "handler"
    /\ \E logsFault \in Faults, removeFault \in Faults :
         /\ trace' = trace \o HandlerCalls(logsFault)
         /\ container' = IF "remove" \in {HandlerCalls(logsFault)[i] :
                                            i \in 1..Len(HandlerCalls(logsFault))}
                            /\ ~removeFault
                         THEN "removed" ELSE container
    /\ LeaveTry(Return(ErrorDict("Container execution error")))
    /\ UNCHANGED <<imageExists, manager_instance, image_built, entry, request,
                   temp_dir, files_written, exit_code, output, exc, last,
                   prev, nCalls>>
    /\ UNCHANGED <<runnerVars, concVars, promptVars, timeVars, stepVars,
                 reportVars>>

\* mutant: a failing removal of the workspace raises out of the call
RbFinally_Raises ==
    /\ pc = "finally"
    /\ \E fault \in Faults :
         /\ trace' = Append(trace, IF fault THEN "rmtree:failed"
                                   ELSE "rmtree:ok")
         /\ temp_dir' = IF fault THEN temp_dir ELSE "removed"
         /\ Finish(IF fault THEN Raise("rmtree failed") ELSE ret)
    /\ UNCHANGED <<imageExists, manager_instance, image_built, entry, request,
                   files_written, container, exit_code, output, exc, last,
                   prev, nCalls>>
    /\ UNCHANGED <<runnerVars, concVars, promptVars, timeVars, stepVars,
                 reportVars>>

\* setup_environment.py:267-272: shutil.rmtree(temp_dir, ignore_errors=True)
\* removes the directory or silently leaves it
RbFinally ==
    /\ pc = "finally"
    /\ \E fault \in Faults :
         /\ trace' = Append(trace, IF fault THEN "rmtree:failed"
                                   ELSE "rmtree:ok")
         /\ temp_dir' = IF fault THEN temp_dir ELSE "removed"
    /\ Finish(ret)
    /\ UNCHANGED <<imageExists, manager_instance, image_built, entry, request,
                   files_written, container, exit_code, output, exc, last,
                   prev, nCalls>>
    /\ UNCHANGED <<runnerVars, concVars, promptVars, timeVars, stepVars,
                 reportVars>>


\* --------------------------------------------------- convenience functions
\* str.lower() on the characters of the language names
Lower(c) == IF c = "C" THEN "c" ELSE IF c = "P" THEN "p"
            ELSE IF c = "J" THEN "j" ELSE IF c = "R" THEN "r" ELSE c

lower(s) == [i \in 1..Len(s) |-> Lower(s[i])]

\* the language names a caller passes
Languages == { <<"c", "p", "p">>, <<"C", "P", "P">>, <<"C", "+", "+">>,
               <<"j", "a", "v", "a">>, <<"J", "a", "v", "a">>,
               <<"r", "u", "s", "t">>, <<"R", "u", "s", "t">>,
               <<"p", "y">>, <<>> }

\* setup_environment.py:44-48
compile_commands ==
    [k \in { <<"c", "p", "p">>, <<"j", "a", "v", "a">>,
             <<"r", "u", "s", "t">> } |->
        IF k = <<"c", "p", "p">>
        THEN "g++ -O3 -std=c++17 -march=native code.cpp -o cpp_program"
        ELSE IF k = <<"j", "a", "v", "a">>
        THEN "javac Main.java"
        ELSE "rustc -C opt-level=3 -C target-cpu=native code.rs -o rust_program"]

\* dict.get(key, default)
DictGet(d, key, default) == IF key \in DOMAIN d THEN d[key] ELSE default

\* setup_environment.py:54-56, the method
manager_get_compile_command(lang) ==
    DictGet(compile_commands, lower(lang), "")

\* mutant: the module-level function lets the exception of get_manager out
get_compile_command_NoTry(m, lang, ctorOk, fault, ok) ==
    LET g == get_manager(m, ctorOk, fault, ok) IN
    [m |-> g.m,
     ret |-> IF g.raised THEN Raise("Docker connection failed")
             ELSE Return(manager_get_compile_command(lang))]

\* setup_environment.py:328-335, the module-level function
get_compile_command(m, lang, ctorOk, fault, ok) ==
    LET g == get_manager(m, ctorOk, fault, ok) IN
    [m |-> g.m,
     ret |-> IF g.raised THEN Return("")
             ELSE Return(manager_get_compile_command(lang))]

\* get_compile_command(language) called by user_prompt_for
\* (llm_porter.py:21)
CallGetCompileCommand ==
    /\ CanCall
    /\ \E lang \in Languages, ctorOk \in BOOLEAN, fault \in Faults,
          ok \in BOOLEAN :
         LET c == get_compile_command(FreshM, lang, ctorOk, fault, ok) IN
         /\ Atomic("get_compile_command", c.m, c.ret, FALSE)
         /\ language' = lang
    /\ UNCHANGED <<runnerVars, concVars, timeVars, stepVars,
                 reportVars>>

\* manager.get_compile_command(language) on the existing manager
CallManagerCompileCommand ==
    /\ CanCall /\ manager_instance
    /\ \E lang \in Languages :
         /\ Atomic("manager.get_compile_command", FreshM,
                   Return(manager_get_compile_command(lang)), FALSE)
         /\ language' = lang
    /\ UNCHANGED <<runnerVars, concVars, timeVars, stepVars,
                 reportVars>>


\* ------------------------------------------------------- porter and UI
\* Texts of the application are sequences of characters and of words that
\* hold neither blanks nor line ends.

\* llm_porter.py:61
NoPythonCode == <<"/", "/", " ", "No Python code provided">>

\* mutant: the error text of a failed porting has no comment marker
ErrorPorting_NoMarker(lang, e) ==
    <<"Error porting to ", lang, ": ">> \o e

\* llm_porter.py:74: f"// Error porting to {lang}: {str(e)}"
ErrorPorting(lang, e) ==
    <<"/", "/", " ", "Error porting to ", lang, ": ">> \o e

\* ui.py:77, 87, 97
WillAppear(lang) ==
    <<"/", "/", " ", lang, " code will appear here after porting">>

\* llm_porter.py:58 and the tabs of ui.py
LangName == [cpp |-> "C++", java |-> "Java", rust |-> "Rust"]

\* what future.result(timeout=120) gives for one language: the reply of the
\* model with the code fences removed, or an exception
PortOutcomes ==
    {[ok |-> TRUE, text |-> <<"\n", "x", "\n">>],
     [ok |-> FALSE, text |-> <<"t">>]}

\* llm_porter.py:57-76
port_all_languages(python_code, out) ==
    IF strip(python_code) = <<>>
    THEN [cpp |-> NoPythonCode, java |-> NoPythonCode, rust |-> NoPythonCode]
    ELSE [lang \in {"cpp", "java", "rust"} |->
            IF out[lang].ok THEN out[lang].text
            ELSE ErrorPorting(LangName[lang], out[lang].text)]

\* ui.py:76-103: the three code boxes before the first porting
InitialBoxes == [lang \in {"cpp", "java", "rust"} |-> WillAppear(LangName[lang])]

\* the Python texts of the editor
PythonTexts == {<<" ">>, <<"x">>}

\* the portings in which at least one language failed
FailedPortings ==
    {out \in [{"cpp", "java", "rust"} -> PortOutcomes] :
        \E lang \in {"cpp", "java", "rust"} : ~out[lang].ok}

\* ui.py:143-154: the boxes hold their initial value or what the last
\* porting returned, a porting that left a placeholder in some box
Boxes ==
    {InitialBoxes}
    \cup {port_all_languages(p, out) :
            p \in PythonTexts, out \in FailedPortings}

\* ui.py:162-169 with benchmark_runner.py:20: the request of "Execute All"
UIRequests ==
    {[python |-> Str(p), cpp |-> Str(b.cpp), java |-> Str(b.java),
      rust |-> Str(b.rust)] : p \in PythonTexts, b \in Boxes}

\* the blobs a caller of run_benchmark may pass for a slot
Blobs == {NoneBlob, Str(<<>>), Str(<<" ", "\n">>), Str(<<"/", "/", "e">>),
          Str(<<"\n", "/", "/", "e">>), Str(<<"x">>)}

\* requests in which one slot holds any blob and the other three nothing
SlotRequests ==
    {[[slot \in Slots |-> NoneBlob] EXCEPT ![s] = b] :
        s \in Slots, b \in Blobs}

\* benchmark.py:204, 212, 220, 228: the file main() looks for
SourceFile == [python |-> "code.py", cpp |-> "code.cpp",
               rust |-> "code.rs", java |-> "Main.java"]

\* setup_environment.py:177: temp_dir is mounted as /app/code, so main()
\* finds the files the call wrote under the names it looks for
Mounted(written) ==
    {slot \in Slots : SourceFile[slot] \in {FileName[s] : s \in written}}


\* ------------------------------------------------------- in-sandbox runner
\* Outcomes of one subprocess.run: exit code zero, non-zero exit,
\* TimeoutExpired, or another exception
Outcomes == {"ok", "fail", "timeout", "error"}

\* captured stderr / str(e) texts, stdout texts and perf_counter differences
Texts == {"", "msg"}
Stdouts == {<<>>, <<"h", "\n">>}
Times == {0, 3}

\* what one stage observed: its outcome, the text of stderr or of the
\* exception, the stdout and the measured time; only the fields an outcome
\* uses vary
ObsOf(o, text, out, time) ==
    [outcome |-> o,
     text |-> IF o \in {"fail", "error"} THEN text ELSE "",
     out |-> IF o = "ok" THEN out ELSE <<>>,
     time |-> IF o = "ok" THEN time ELSE 0]

Failure(err) == [success |-> FALSE, error |-> err, execution_time |-> None]

\* benchmark.py:209,217,225,233
FileNotFound == Failure(Msg("File not found"))

\* mutant: an exception other than TimeoutExpired leaves the function
OnException_Reraise(o) ==
    [res |-> IF o.outcome = "timeout" THEN Failure(Msg("Execution timeout"))
             ELSE Failure(Msg(o.text)),
     raised |-> o.outcome # "timeout"]

\* the except clauses of the four functions (benchmark.py:43-54, 91-102,
\* 147-158, 184-195): the result returned for an exception, never re-raised
OnException(o) ==
    [res |-> IF o.outcome = "timeout" THEN Failure(Msg("Execution timeout"))
             ELSE Failure(Msg(o.text)),
     raised |-> FALSE]

\* mutant: a non-zero exit still reports the measured time
RunStage_KeepsTime(r) ==
    IF r.outcome \in {"timeout", "error"} THEN OnException(r)
    ELSE IF r.outcome = "fail"
    THEN [res |-> [success |-> FALSE,
                   error |-> Cat("Runtime error: ", r.text),
                   execution_time |-> Float(r.time)],
          raised |-> FALSE]
    ELSE [res |-> [success |-> TRUE, execution_time |-> Float(r.time),
                   output |-> strip(r.out)],
          raised |-> FALSE]

\* the run stage (benchmark.py:23-41, 71-89, 126-145, 164-182)
RunStage(r) ==
    IF r.outcome \in {"timeout", "error"} THEN OnException(r)
    ELSE IF r.outcome = "fail"
    THEN [res |-> Failure(Cat("Runtime error: ", r.text)), raised |-> FALSE]
    ELSE [res |-> [success |-> TRUE, execution_time |-> Float(r.time),
                   output |-> strip(r.out)],
          raised |-> FALSE]

\* compile stage, then run stage; procs lists the commands handed to
\* subprocess.run
CompileAndRun(compiler, program, c, r) ==
    IF c.outcome \in {"timeout", "error"}
    THEN OnException(c) @@ [procs |-> <<compiler>>]
    ELSE IF c.outcome = "fail"
    THEN [res |-> Failure(Cat("Compilation error: ", c.text)),
          raised |-> FALSE, procs |-> <<compiler>>]
    ELSE RunStage(r) @@ [procs |-> <<compiler, program>>]

\* benchmark.py:8-54
compile_and_run_cpp(c, r) == CompileAndRun("g++", "cpp_program", c, r)

\* benchmark.py:56-102
compile_and_run_rust(c, r) == CompileAndRun("rustc", "rust_program", c, r)

\* benchmark.py:104-158
compile_and_run_java(c, r) == CompileAndRun("javac", "java", c, r)

\* benchmark.py:160-195
run_python(r) == RunStage(r) @@ [procs |-> <<"python3">>]

\* mutant: the Python script is run without the os.path.exists test
ProcessSlot_NoCheck(slot, dir, c, r) ==
    IF slot = "python" THEN run_python(r)
    ELSE IF slot \notin dir
    THEN [res |-> FileNotFound, raised |-> FALSE, procs |-> <<>>]
    ELSE IF slot = "cpp" THEN compile_and_run_cpp(c, r)
    ELSE IF slot = "rust" THEN compile_and_run_rust(c, r)
    ELSE compile_and_run_java(c, r)

\* one "if os.path.exists(...) ... else ..." block of main()
ProcessSlot(slot, dir, c, r) ==
    IF slot \notin dir
    THEN [res |-> FileNotFound, raised |-> FALSE, procs |-> <<>>]
    ELSE IF slot = "python" THEN run_python(r)
    ELSE IF slot = "cpp" THEN compile_and_run_cpp(c, r)
    ELSE IF slot = "rust" THEN compile_and_run_rust(c, r)
    ELSE compile_and_run_java(c, r)

NoObs == ObsOf("ok", "", <<>>, 0)

\* the stage observations that make a difference for a slot
CompileObs(slot, dir) ==
    IF slot \in dir /\ slot # "python"
    THEN {ObsOf(o, t, <<>>, 0) : o \in Outcomes, t \in Texts}
    ELSE {NoObs}

RunObs(slot, dir, c) ==
    IF slot \in dir /\ c.outcome = "ok"
    THEN {ObsOf(o, t, out, time) :
            o \in Outcomes, t \in Texts, out \in Stdouts, time \in Times}
    ELSE {NoObs}

\* benchmark.py:203-233: the next slot of main() is processed
RunnerSlot ==
    /\ rpc = "run" /\ idx <= 4
    /\ LET slot == RunOrder[idx] IN
       \E c \in CompileObs(slot, code_dir) :
       \E r \in RunObs(slot, code_dir, c) :
         LET p == ProcessSlot(slot, code_dir, c, r) IN
         /\ procs' = procs \o p.procs
         /\ IF p.raised
            THEN rpc' = "aborted" /\ UNCHANGED <<results, idx>>
            ELSE /\ results' = (slot :> p.res) @@ results
                 /\ idx' = idx + 1
                 /\ UNCHANGED rpc
    /\ UNCHANGED <<code_dir, stdout>>
    /\ UNCHANGED <<orchVars, concVars, promptVars, timeVars, stepVars,
                 reportVars>>

\* benchmark.py:235: print(json.dumps(results))
RunnerEmit ==
    /\ rpc = "run" /\ idx = 5
    /\ stdout' = Append(stdout, results)
    /\ rpc' = "emitted"
    /\ UNCHANGED <<code_dir, idx, results, procs>>
    /\ UNCHANGED <<orchVars, concVars, promptVars, timeVars, stepVars,
                 reportVars>>


\* --------------------------------------------- the runner in its container
\* the member json.dumps writes for a slot:
\*   "n"  {"success": false, "error": "File not found", "execution_time": null}
\*   "m"  {"success": false, "error": "File not found"}
\*   "s"  a successful result, "f" any other failing result
MemberText(res) ==
    IF res.success THEN "s"
    ELSE IF res.error # Msg("File not found") THEN "f"
    ELSE IF "execution_time" \in DOMAIN res THEN "n"
    ELSE "m"

\* benchmark.py:235: the line printed for the results dict, the slots in
\* the order of insertion
JsonLine(res) ==
    <<"{", MemberText(res[RunOrder[1]]),
      " ", MemberText(res[RunOrder[2]]),
      " ", MemberText(res[RunOrder[3]]),
      " ", MemberText(res[RunOrder[4]]), "}">>

\* benchmark.py:206,214,222,230: one line on stderr for each source file
\* found
StderrLines(dir, n) ==
    LET RECURSIVE F(_)
        F(i) == IF i > n THEN <<>>
                ELSE (IF RunOrder[i] \in dir THEN <<"d", "\n">> ELSE <<>>)
                     \o F(i + 1)
    IN F(1)

\* container.logs(): stderr and stdout of benchmark.py so far
ContainerLogs ==
    StderrLines(code_dir, idx - 1)
    \o (IF stdout = <<>> THEN <<>> ELSE JsonLine(stdout[1]) \o <<"\n">>)

\* the requests of the end-to-end runs: the Python and the C++ slot are
\* empty, None or code; the Java and the Rust slot are empty or None
E2ERequests == [python : {Str(<<>>), Str(<<"x">>)},
                cpp : {NoneBlob, Str(<<"x">>)},
                java : {Str(<<>>)},
                rust : {NoneBlob}]

\* mutant: the call returns as soon as the container is started
RbLaunchRunner_NoWait ==
    /\ pc = "launch"
    /\ trace' = Append(trace, "containers.run")
    /\ LeaveTry(Return(ErrorDict("detached")))
    /\ container' = "running"
    /\ code_dir' = files_written
    /\ rpc' = "run"
    /\ UNCHANGED <<imageExists, manager_instance, image_built, entry, request,
                   temp_dir, files_written, exit_code, output, exc, last,
                   prev, nCalls>>
    /\ UNCHANGED <<idx, results, procs, stdout, concVars, promptVars, timeVars, stepVars,
                 reportVars>>

\* setup_environment.py:174-184 with the container it starts: /app/code is
\* the workspace, benchmark.py begins
RbLaunchRunner ==
    /\ pc = "launch"
    /\ trace' = Append(trace, "containers.run")
    /\ \E fault \in Faults :
         IF fault
         THEN /\ LeaveTry(Return(ErrorDict("launch failed")))
              /\ UNCHANGED <<container, code_dir, rpc>>
         ELSE /\ Continue("wait")
              /\ container' = "running"
              /\ code_dir' = files_written
              /\ rpc' = "run"
    /\ UNCHANGED <<imageExists, manager_instance, image_built, entry, request,
                   temp_dir, files_written, exit_code, output, exc, last,
                   prev, nCalls>>
    /\ UNCHANGED <<idx, results, procs, stdout, concVars, promptVars, timeVars, stepVars,
                 reportVars>>

\* benchmark.py runs while the host is inside container.wait
RunnerInContainer ==
    /\ pc = "wait" /\ container = "running"
    /\ RunnerSlot \/ RunnerEmit

\* setup_environment.py:188-189: wait returns when main() has ended, raises
\* on its timeout while main() is running, or raises an API error
RbWaitRunner ==
    /\ pc = "wait"
    /\ trace' = Append(trace, "wait")
    /\ \E outcome \in {"exited", "timeout", "error"} :
         /\ outcome = "exited" => rpc \in {"emitted", "aborted"}
         /\ outcome = "timeout" => rpc = "run"
         /\ IF outcome = "exited"
            THEN /\ exit_code' = IF rpc = "emitted" THEN 0 ELSE 1
                 /\ container' = "exited"
                 /\ Continue("logs")
                 /\ UNCHANGED exc
            ELSE /\ exc' = outcome
                 /\ Continue("handler")
                 /\ UNCHANGED <<exit_code, container>>
    /\ UNCHANGED <<imageExists, manager_instance, image_built, entry, request,
                   temp_dir, files_written, output, last, prev, nCalls>>
    /\ UNCHANGED <<runnerVars, concVars, promptVars, timeVars, stepVars,
                 reportVars>>

\* setup_environment.py:192: the logs are what benchmark.py printed
RbLogsRunner ==
    /\ pc = "logs"
    /\ trace' = Append(trace, "logs")
    /\ \E fault \in Faults :
         IF fault
         THEN exc' = "logs failed" /\ Continue("handler") /\ UNCHANGED output
         ELSE /\ output' = ContainerLogs
              /\ Continue("remove")
              /\ UNCHANGED exc
    /\ UNCHANGED <<imageExists, manager_instance, image_built, entry, request,
                   temp_dir, files_written, container, exit_code, last, prev,
                   nCalls>>
    /\ UNCHANGED <<runnerVars, concVars, promptVars, timeVars, stepVars,
                 reportVars>>


\* ------------------------------------------------------------ stage times
\* setup_environment.py:188: container.wait(timeout=180)
UnitTimeout == 180

\* benchmark.py:13, 61, 115: timeout of the compile stage
CompileTimeout == [cpp |-> 30, rust |-> 60, java |-> 30]

\* benchmark.py:27, 75, 130, 168: timeout of the run stage
RunTimeout == 60

\* a stage with the time it took: a stage that ran into its timeout took
\* the whole timeout, any other stage took a second or ended a second
\* before its timeout
TimedObs(limit) ==
    {[obs |-> ObsOf(o, "", <<>>, 0), d |-> d] :
        o \in Outcomes \ {"timeout"}, d \in {1, limit - 1}}
    \cup {[obs |-> ObsOf("timeout", "", <<>>, 0), d |-> limit]}

NoStage == {[obs |-> NoObs, d |-> 0]}

TimedCompile(slot, dir) ==
    IF slot \in dir /\ slot # "python"
    THEN TimedObs(CompileTimeout[slot]) ELSE NoStage

TimedRun(slot, dir, c) ==
    IF slot \in dir /\ c.obs.outcome = "ok"
    THEN TimedObs(RunTimeout) ELSE NoStage

\* benchmark.py:203-233 with the time the stages of the slot take; main()
\* runs while the host is inside container.wait
RunnerSlotTimed ==
    /\ pc = "wait" /\ container = "running"
    /\ rpc = "run" /\ idx <= 4
    /\ clock <= UnitTimeout
    /\ LET slot == RunOrder[idx] IN
       \E c \in TimedCompile(slot, code_dir) :
       \E r \in TimedRun(slot, code_dir, c) :
         LET p == ProcessSlot(slot, code_dir, c.obs, r.obs) IN
         /\ procs' = procs \o p.procs
         /\ clock' = clock + c.d + r.d
         /\ IF p.raised
            THEN rpc' = "aborted" /\ UNCHANGED <<results, idx>>
            ELSE /\ results' = (slot :> p.res) @@ results
                 /\ idx' = idx + 1
                 /\ UNCHANGED rpc
    /\ UNCHANGED <<code_dir, stdout>>
    /\ UNCHANGED <<orchVars, concVars, promptVars, stepVars, reportVars>>

\* benchmark.py:235 inside the container
RunnerEmitTimed ==
    /\ pc = "wait" /\ container = "running"
    /\ RunnerEmit

\* setup_environment.py:188-189: wait returns when main() has ended within
\* 180 s, raises on its timeout when the 180 s have passed before that, or
\* raises an API error
RbWaitTimed ==
    /\ pc = "wait"
    /\ trace' = Append(trace, "wait")
    /\ \E outcome \in {"exited", "timeout", "error"} :
         /\ outcome = "exited" =>
                rpc \in {"emitted", "aborted"} /\ clock <= UnitTimeout
         /\ outcome = "timeout" => clock > UnitTimeout
         /\ IF outcome = "exited"
            THEN /\ exit_code' = IF rpc = "emitted" THEN 0 ELSE 1
                 /\ container' = "exited"
                 /\ Continue("logs")
                 /\ UNCHANGED exc
            ELSE /\ exc' = outcome
                 /\ Continue("handler")
                 /\ UNCHANGED <<exit_code, container>>
    /\ UNCHANGED <<imageExists, manager_instance, image_built, entry, request,
                   temp_dir, files_written, output, last, prev, nCalls>>
    /\ UNCHANGED <<runnerVars, concVars, promptVars, timeVars, stepVars,
                 reportVars>>


\* ---------------------------------------------------- main() step by step
\* The functions of benchmark.py block in subprocess.run; here every start
\* and every end of a child process is a step of its own.

\* the commands the function of a slot hands to subprocess.run, in order
Commands(slot) == ProcessSlot(slot, {slot}, NoObs, NoObs).procs

Compiler(slot) == Commands(slot)[1]

Program(slot) == Commands(slot)[Len(Commands(slot))]

\* one entry of the log: a line on stderr, the start or the end of a child
\* process, the assignment results[slot] = ..., or the line on stdout; at is
\* the reading of time.perf_counter()
Event(e, slot, cmd, obs, text, at) ==
    [e |-> e, slot |-> slot, cmd |-> cmd, obs |-> obs, text |-> text,
     at |-> at]

\* seconds a program takes when it ends with exit code 0, and seconds a
\* compiler takes then
StepDurations == {1, 2}
CompileDuration == 2

\* how a subprocess.run with the given timeout ends, and after how long: a
\* child that is killed at the timeout took the whole timeout
StageEnds(limit, outs, ds) ==
    {[obs |-> ObsOf("ok", "", out, 0), d |-> d] : out \in outs, d \in ds}
    \cup {[obs |-> ObsOf(o, t, <<>>, 0), d |-> 1] :
        o \in {"fail", "error"}, t \in Texts}
    \cup {[obs |-> ObsOf("timeout", "", <<>>, 0), d |-> limit]}

\* mutant: the diagnostic lines are printed without file=sys.stderr
DiagChannel_Stdout ==
    "stdout"

\* benchmark.py:206, 214, 222, 230: print(..., file=sys.stderr)
DiagChannel ==
    "stderr"

\* benchmark.py:205-209, 213-217, 221-225, 229-233: the os.path.exists test
\* of the next slot, with the line on stderr or the "File not found" result
StepExists ==
    /\ rpc = "run" /\ idx <= 4 /\ stage = "check"
    /\ LET slot == RunOrder[idx] IN
       IF slot \in code_dir
       THEN /\ log' = Append(log, Event(DiagChannel, slot, "", NoObs,
                                        <<"d", "\n">>, clock))
            /\ stage' = "entered"
            /\ UNCHANGED <<results, idx>>
       ELSE /\ results' = (slot :> ProcessSlot(slot, code_dir, NoObs,
                                               NoObs).res) @@ results
            /\ log' = Append(log, Event("record", slot, "", NoObs, <<>>,
                                        clock))
            /\ idx' = idx + 1
            /\ UNCHANGED stage
    /\ UNCHANGED <<code_dir, rpc, procs, stdout, alive, start_time>>
    /\ UNCHANGED <<orchVars, concVars, promptVars, timeVars, reportVars>>

\* the function of the slot returned p: main() stores the result (lines
\* 207, 215, 223, 231) and goes on to the next slot
StepRecord(slot, p, lg, now) ==
    IF p.raised
    THEN /\ rpc' = "aborted"
         /\ log' = lg
         /\ UNCHANGED <<results, idx, stage>>
    ELSE /\ results' = (slot :> p.res) @@ results
         /\ log' = Append(lg, Event("record", slot, "", NoObs, <<>>, now))
         /\ idx' = idx + 1
         /\ stage' = "check"
         /\ UNCHANGED rpc

\* benchmark.py:12-13, 60-61, 111-116: the compiler is started
StepStartCompile ==
    /\ rpc = "run" /\ idx <= 4 /\ stage = "entered"
    /\ RunOrder[idx] # "python"
    /\ LET cmd == Compiler(RunOrder[idx]) IN
       /\ procs' = Append(procs, cmd)
       /\ alive' = alive \cup {cmd}
       /\ log' = Append(log, Event("start", RunOrder[idx], cmd, NoObs, <<>>,
                                   clock))
    /\ stage' = "compiling"
    /\ UNCHANGED <<code_dir, rpc, idx, results, stdout, start_time>>
    /\ UNCHANGED <<orchVars, concVars, promptVars, timeVars, reportVars>>

\* mutant: subprocess.run returns while the child is still running
Reap_Leaves(children, cmd) ==
    children

\* subprocess.run returns or raises only when the child has ended: it waits
\* for the exit, and at the timeout it kills the child and waits for it
Reap(children, cmd) ==
    children \ {cmd}

\* mutant: the function goes on to the run stage whatever the compiler did
CompileSucceeded_Always(c) ==
    TRUE

\* benchmark.py:15, 63, 118: the compiler returned and its exit code is 0,
\* so the function does not return before the run stage
CompileSucceeded(c) ==
    c.outcome = "ok"

\* benchmark.py:13-20, 61-68, 112-123 and the except clauses: the compiler
\* has ended, or was killed at the timeout
StepEndCompile ==
    /\ rpc = "run" /\ idx <= 4 /\ stage = "compiling"
    /\ LET slot == RunOrder[idx] IN
       \E c \in StageEnds(CompileTimeout[slot], {<<>>}, {CompileDuration}) :
         LET now == clock + c.d
             lg == Append(log, Event("end", slot, Compiler(slot), c.obs,
                                     <<>>, now))
         IN /\ clock' = now
            /\ alive' = Reap(alive, Compiler(slot))
            /\ IF CompileSucceeded(c.obs)
               THEN /\ stage' = "compiled"
                    /\ log' = lg
                    /\ UNCHANGED <<rpc, results, idx>>
               ELSE StepRecord(slot, ProcessSlot(slot, code_dir, c.obs,
                                                 NoObs), lg, now)
    /\ UNCHANGED <<code_dir, procs, stdout, start_time>>
    /\ UNCHANGED <<orchVars, concVars, promptVars, reportVars>>

\* mutant: the timer is not started with the program
StepStartRun_NoTimer ==
    /\ rpc = "run" /\ idx <= 4
    /\ stage = IF RunOrder[idx] = "python" THEN "entered" ELSE "compiled"
    /\ LET cmd == Program(RunOrder[idx]) IN
       /\ procs' = Append(procs, cmd)
       /\ alive' = alive \cup {cmd}
       /\ log' = Append(log, Event("start", RunOrder[idx], cmd, NoObs, <<>>,
                                   clock))
    /\ stage' = "running"
    /\ UNCHANGED <<code_dir, rpc, idx, results, stdout, start_time>>
    /\ UNCHANGED <<orchVars, concVars, promptVars, timeVars, reportVars>>

\* benchmark.py:23-27, 71-75, 126-131, 164-168: start_time is read and the
\* program (the interpreter for Python) is started
StepStartRun ==
    /\ rpc = "run" /\ idx <= 4
    /\ stage = IF RunOrder[idx] = "python" THEN "entered" ELSE "compiled"
    /\ start_time' = clock
    /\ LET cmd == Program(RunOrder[idx]) IN
       /\ procs' = Append(procs, cmd)
       /\ alive' = alive \cup {cmd}
       /\ log' = Append(log, Event("start", RunOrder[idx], cmd, NoObs, <<>>,
                                   clock))
    /\ stage' = "running"
    /\ UNCHANGED <<code_dir, rpc, idx, results, stdout>>
    /\ UNCHANGED <<orchVars, concVars, promptVars, timeVars, reportVars>>

\* benchmark.py:28-41, 76-89, 132-145, 169-182 and the except clauses: the
\* program has ended, or was killed at the timeout; end_time is read
StepEndRun ==
    /\ rpc = "run" /\ idx <= 4 /\ stage = "running"
    /\ LET slot == RunOrder[idx] IN
       \E r \in StageEnds(RunTimeout, Stdouts, StepDurations) :
         LET end_time == clock + r.d
             obs == ObsOf(r.obs.outcome, r.obs.text, r.obs.out,
                          end_time - start_time)
             lg == Append(log, Event("end", slot, Program(slot), obs, <<>>,
                                     end_time))
         IN /\ clock' = end_time
            /\ alive' = Reap(alive, Program(slot))
            /\ StepRecord(slot, ProcessSlot(slot, code_dir, NoObs, obs), lg,
                          end_time)
    /\ UNCHANGED <<code_dir, procs, stdout, start_time>>
    /\ UNCHANGED <<orchVars, concVars, promptVars, reportVars>>

\* benchmark.py:235: print(json.dumps(results)), after which main() returns
StepPrint ==
    /\ rpc = "run" /\ idx = 5 /\ stage = "check"
    /\ stdout' = Append(stdout, results)
    /\ log' = Append(log, Event("stdout", "", "", NoObs,
                                JsonLine(results) \o <<"\n">>, clock))
    /\ rpc' = "emitted"
    /\ UNCHANGED <<code_dir, idx, results, procs, stage, alive, start_time>>
    /\ UNCHANGED <<orchVars, concVars, promptVars, timeVars, reportVars>>


\* ------------------------------------------- threads inside get_manager()
\* port_all_languages (llm_porter.py:64-67) runs port_to_language on pool
\* threads; each builds its prompt through get_system_info() and
\* get_compile_command(), which call get_manager().
Threads == 1..MaxThreads

orchRest == <<manager_instance, image_built, pc, entry, request, temp_dir,
              files_written, container, exit_code, output, ret, exc, trace,
              last, prev, nCalls>>

\* setup_environment.py:305: "if _manager_instance is None"
TEnter(t) ==
    /\ tpc[t] = "enter"
    /\ tpc' = [tpc EXCEPT ![t] = IF instance = 0 THEN "construct" ELSE "done"]
    /\ UNCHANGED <<tmgr, instance, created, building, builds, built,
                   imageExists>>
    /\ UNCHANGED <<orchRest, runnerVars, promptVars, timeVars, stepVars,
                 reportVars>>

\* setup_environment.py:306: _manager_instance = DockerBenchmarkManager();
\* a constructor that raises ends the call of the thread
TConstruct(t) ==
    /\ tpc[t] = "construct"
    /\ \E ctorOk \in BOOLEAN :
         IF ctorOk
         THEN /\ created' = created + 1
              /\ instance' = created + 1
              /\ tmgr' = [tmgr EXCEPT ![t] = created + 1]
              /\ tpc' = [tpc EXCEPT ![t] = "ensure"]
         ELSE /\ tpc' = [tpc EXCEPT ![t] = "done"]
              /\ UNCHANGED <<created, instance, tmgr>>
    /\ UNCHANGED <<building, builds, built, imageExists>>
    /\ UNCHANGED <<orchRest, runnerVars, promptVars, timeVars, stepVars,
                 reportVars>>

\* setup_environment.py:308 with 98-108: images.get on the manager the global
\* refers to; ImageNotFound starts build_image
TEnsure(t) ==
    /\ tpc[t] = "ensure"
    /\ \E fault \in Faults :
         IF fault
         THEN /\ tpc' = [tpc EXCEPT ![t] = "done"]
              /\ UNCHANGED <<built, building, builds, tmgr>>
         ELSE IF imageExists
         THEN /\ built' = [built EXCEPT ![instance] = TRUE]
              /\ tpc' = [tpc EXCEPT ![t] = "done"]
              /\ UNCHANGED <<building, builds, tmgr>>
         ELSE /\ tmgr' = [tmgr EXCEPT ![t] = instance]
              /\ building' = building \cup {t}
              /\ builds' = builds + 1
              /\ tpc' = [tpc EXCEPT ![t] = "build"]
              /\ UNCHANGED built
    /\ UNCHANGED <<instance, created, imageExists>>
    /\ UNCHANGED <<orchRest, runnerVars, promptVars, timeVars, stepVars,
                 reportVars>>

\* setup_environment.py:65-94: images.build returns or raises
TBuild(t) ==
    /\ tpc[t] = "build"
    /\ \E ok \in BOOLEAN :
         /\ imageExists' = IF ok THEN TRUE ELSE imageExists
         /\ built' = IF ok THEN [built EXCEPT ![tmgr[t]] = TRUE] ELSE built
    /\ building' = building \ {t}
    /\ tpc' = [tpc EXCEPT ![t] = "done"]
    /\ UNCHANGED <<tmgr, instance, created, builds>>
    /\ UNCHANGED <<orchRest, runnerVars, promptVars, timeVars, stepVars,
                 reportVars>>

\* ---------------------------------------------------------- results report
\* benchmark_runner.py.  A report is the list markdown_lines: every entry is
\* a record whose kind is "text" (a fixed line), "rank" (one entry of the
\* performance ranking) or "detail" (one entry of the execution details).

\* benchmark_runner.py:39-44: the keys of lang_config in order, and the names
LangKeys == <<"python", "cpp", "java", "rust">>
lang_config == [python |-> "Python", cpp |-> "C++", java |-> "Java",
                rust |-> "Rust"]

\* float('inf') of the sort key: greater than every time of the model
inf == 1000000000

\* list.sort / sorted by a key: ascending and stable, equal keys keep their
\* order (keys[i] is the key of items[i])
RECURSIVE SortedBy(_, _)
SortedBy(items, keys) ==
    IF items = <<>> THEN <<>>
    ELSE LET i == CHOOSE k \in 1..Len(items) :
                      /\ \A j \in 1..Len(items) : keys[k] <= keys[j]
                      /\ \A j \in 1..(k - 1) : keys[j] > keys[k]
             Drop(s) == SubSeq(s, 1, i - 1) \o SubSeq(s, i + 1, Len(s))
         IN  <<items[i]>> \o SortedBy(Drop(items), Drop(keys))

\* benchmark_runner.py:52-67: the entry of one language result;
\* result.get('execution_time', 0) * 1000 is the time in milliseconds
ExtractItem(lang_key, result) ==
    IF "success" \in DOMAIN result /\ result.success
    THEN [name |-> lang_config[lang_key],
          time |-> (IF "execution_time" \in DOMAIN result
                    THEN result.execution_time[1] ELSE 0) * 1000,
          status |-> "PASS",
          output |-> IF "output" \in DOMAIN result THEN result.output
                     ELSE <<>>]
    ELSE [name |-> lang_config[lang_key],
          time |-> 0,
          status |-> "FAIL",
          error |-> IF "error" \in DOMAIN result THEN result.error
                    ELSE Msg("Unknown error")]

\* _extract_language_data (benchmark_runner.py:38-72): one entry per language
\* key the results hold, sorted by time descending with the entries of time
\* 0 first (sort with reverse=True keeps the order of equal keys)
extract_language_data(res) ==
    LET present == SelectSeq(LangKeys, LAMBDA k : k \in DOMAIN res)
        items == [i \in 1..Len(present) |->
                     ExtractItem(present[i], res[present[i]])]
        key(item) == IF item.time > 0 THEN item.time ELSE inf
    IN  SortedBy(items, [i \in 1..Len(items) |-> 0 - key(items[i])])

\* _create_performance_chart (benchmark_runner.py:75-125): None when no
\* entry has a positive time, else a figure
create_performance_chart(data) ==
    IF \E i \in 1..Len(data) : data[i].time > 0 THEN "Figure" ELSE "None"

Line(text) == [kind |-> "text", text |-> text]

\* benchmark_runner.py:131-132: the time of the first entry named Python
\* with status PASS, or None
PythonTime(data) ==
    LET py == SelectSeq(data, LAMBDA item :
                            item.name = "Python" /\ item.status = "PASS")
    IN  IF py = <<>> THEN None ELSE Float(py[1].time)

\* benchmark_runner.py:134-135
SuccessfulSorted(data) ==
    LET successful == SelectSeq(data, LAMBDA item :
                                    item.status = "PASS" /\ item.time > 0)
    IN  SortedBy(successful,
                 [i \in 1..Len(successful) |-> successful[i].time])

\* benchmark_runner.py:137: successful_sorted and python_time and
\* python_time > 0 (None and 0 are both false)
Ranked(data) ==
    /\ SuccessfulSorted(data) # <<>>
    /\ PythonTime(data) # None
    /\ PythonTime(data)[1] # 0
    /\ PythonTime(data)[1] > 0

\* _generate_results_report (benchmark_runner.py:128-186); the speedup
\* python_time / item['time'] is kept as the pair of its operands, and the
\* texts of the model are shorter than the 200 and 300 characters after
\* which the details are cut
generate_results_report(data, raw_results) ==
    LET python_time == PythonTime(data)
        successful_sorted == SuccessfulSorted(data)
        RankEntry(rank) ==
            LET item == successful_sorted[rank]
            IN  [kind |-> "rank", rank |-> rank, winner |-> rank = 1,
                 name |-> item.name, time |-> item.time,
                 speedup |-> IF item.name # "Python"
                             THEN <<python_time[1], item.time>> ELSE <<>>]
        Detail(item) ==
            [kind |-> "detail", name |-> item.name,
             text |-> IF item.status = "PASS"
                      THEN item.output ELSE <<"ERROR: ">> \o item.error]
        Unknown(item) ==
            [kind |-> "detail", name |-> item.name,
             text |-> IF "error" \in DOMAIN item THEN item.error
                      ELSE Msg("Unknown error")]
    IN  IF Ranked(data)
        THEN <<Line("### Performance Ranking")>>
             \o [rank \in 1..Len(successful_sorted) |-> RankEntry(rank)]
             \o <<Line("---"), Line("### Execution Details")>>
             \o [i \in 1..Len(data) |-> Detail(data[i])]
        ELSE <<Line("### Benchmark Results"),
               Line("**No successful executions**"),
               Line("All languages failed to execute. Check the code for errors."),
               Line("### Execution Details")>>
             \o [i \in 1..Len(data) |-> Unknown(data[i])]

\* benchmark_runner.py:23: an error and none of the four language keys
OnlyError(res) ==
    "error" \in DOMAIN res /\ DOMAIN res \cap Slots = {}

\* what one language can have as its result in the JSON line of the runner:
\* no file, a run that failed, timed out or raised, or a success with its
\* output and time
LanguageResults ==
    {FileNotFound}
    \cup {RunStage(ObsOf(o, "msg", <<"h", "\n">>, t)).res :
              o \in Outcomes, t \in StepDurations}

\* what run_benchmark returns: the parsed JSON line of the runner, or one
\* of the dicts built on the host
BenchResults ==
    [Slots -> LanguageResults]
    \cup {SetupFailed, WrapperError("msg"), ErrorDict("msg"),
          ParseFailure(<<"h", "\n">>, 1)}

\* execute_and_benchmark, lines 23-25: the error report
BenchmarkError ==
    /\ rep = "called"
    /\ OnlyError(bench_results)
    /\ report' = <<"None", <<Line("### Benchmark Error"),
                             [kind |-> "detail", name |-> "",
                              text |-> bench_results.error]>>>>
    /\ rep' = "done"
    /\ UNCHANGED <<bench_results, lang_data>>
    /\ UNCHANGED <<orchVars, runnerVars, concVars, promptVars, timeVars,
                   stepVars>>

\* execute_and_benchmark, line 27
ExtractLanguageData ==
    /\ rep = "called"
    /\ ~OnlyError(bench_results)
    /\ lang_data' = extract_language_data(bench_results)
    /\ rep' = "extracted"
    /\ UNCHANGED <<bench_results, report>>
    /\ UNCHANGED <<orchVars, runnerVars, concVars, promptVars, timeVars,
                   stepVars>>

\* execute_and_benchmark, lines 29-33: the chart, the report, the return
GenerateResultsReport ==
    /\ rep = "extracted"
    /\ report' = <<create_performance_chart(lang_data),
                   generate_results_report(lang_data, bench_results)>>
    /\ rep' = "done"
    /\ UNCHANGED <<bench_results, lang_data>>
    /\ UNCHANGED <<orchVars, runnerVars, concVars, promptVars, timeVars,
                   stepVars>>

\* ---------------------------------------------------------- specifications
OrchIdle ==
    /\ manager_instance = FALSE
    /\ image_built = FALSE
    /\ pc = "idle"
    /\ entry = "method"
    /\ request = [python |-> NoneBlob, cpp |-> NoneBlob, java |-> NoneBlob,
                  rust |-> NoneBlob]
    /\ temp_dir = "unset"
    /\ files_written = {}
    /\ container = "none"
    /\ exit_code = -1
    /\ output = <<>>
    /\ ret = NoRet
    /\ exc = ""
    /\ trace = <<>>
    /\ last = [op |-> "none", ok |-> FALSE]
    /\ prev = "none"
    /\ nCalls = 0

RunnerIdle ==
    /\ code_dir = {}
    /\ rpc = "start"
    /\ idx = 1
    /\ results = <<>>
    /\ procs = <<>>
    /\ stdout = <<>>

ConcIdle ==
    /\ tpc = [t \in Threads |-> "done"]
    /\ tmgr = [t \in Threads |-> 0]
    /\ instance = 0
    /\ created = 0
    /\ building = {}
    /\ builds = 0
    /\ built = [m \in Threads |-> FALSE]

PromptIdle == language = <<>>

TimeIdle == clock = 0

StepIdle ==
    /\ stage = "check"
    /\ alive = {}
    /\ start_time = 0
    /\ log = <<>>

ReportIdle ==
    /\ rep = "idle"
    /\ bench_results = <<>>
    /\ lang_data = <<>>
    /\ report = <<>>

\* one caller, no manager yet, the image present or not
Init ==
    /\ imageExists \in BOOLEAN
    /\ OrchIdle
    /\ RunnerIdle
    /\ ConcIdle
    /\ PromptIdle
    /\ TimeIdle
    /\ StepIdle
    /\ ReportIdle

Next ==
    \/ CallGetManager
    \/ CallEnsure
    \/ CallBuild
    \/ CallCleanup
    \/ CallCleanupManager
    \/ CallRunBenchmark
    \/ RbGetManager
    \/ RbEnsure
    \/ RbMkdtemp
    \/ RbWrite
    \/ RbLaunch
    \/ RbWait
    \/ RbLogs
    \/ RbRemove
    \/ RbParse
    \/ RbHandler
    \/ RbFinally

Spec == Init /\ [][Next]_vars

\* benchmark.py started in a container whose /app/code holds any subset of
\* the four source files
InitRunner ==
    /\ imageExists = TRUE
    /\ OrchIdle
    /\ code_dir \in SUBSET Slots
    /\ rpc = "run"
    /\ idx = 1
    /\ results = <<>>
    /\ procs = <<>>
    /\ stdout = <<>>
    /\ ConcIdle
    /\ PromptIdle
    /\ TimeIdle
    /\ StepIdle
    /\ ReportIdle

NextRunner ==
    \/ RunnerSlot
    \/ RunnerEmit

SpecRunner == InitRunner /\ [][NextRunner]_vars

\* every producer of LanguageResults: a behaviour follows the host
\* application or one benchmark.py process
SpecAll == (Init \/ InitRunner) /\ [][Next \/ NextRunner]_vars

\* every thread is about to call get_manager(); no manager exists
InitConc ==
    /\ imageExists \in BOOLEAN
    /\ OrchIdle
    /\ RunnerIdle
    /\ tpc = [t \in Threads |-> "enter"]
    /\ tmgr = [t \in Threads |-> 0]
    /\ instance = 0
    /\ created = 0
    /\ building = {}
    /\ builds = 0
    /\ built = [m \in Threads |-> FALSE]
    /\ PromptIdle
    /\ TimeIdle
    /\ StepIdle
    /\ ReportIdle

NextConc ==
    \E t \in Threads : TEnter(t) \/ TConstruct(t) \/ TEnsure(t) \/ TBuild(t)

SpecConc == InitConc /\ [][NextConc]_vars

\* the result objects of the parser inputs, as values
Objects == { <<"{", "k", "}">>, <<"{", "k", "j", "}">> }

\* the lines a captured output is made of: blank and diagnostic lines,
\* diagnostics that hold a brace, the one-line serialization of an object,
\* and the lines of an object that was wrapped
LineKinds ==
    { <<>>, <<"d">>, <<"{", "d">>, <<"d", "}">> }
    \cup {JsonDumps(v) : v \in Objects}
    \cup { <<"{">>, <<"<", ">", "}">>, <<"<">>, <<">", "}">> }

ParserInputs ==
    {Join(ls) : ls \in UNION {[1..n -> LineKinds] : n \in 1..MaxLines}}

\* the application builds prompts and manages the manager
NextPrompt ==
    \/ CallGetCompileCommand
    \/ CallManagerCompileCommand
    \/ CallGetManager
    \/ CallCleanupManager

SpecPrompt == Init /\ [][NextPrompt]_vars

\* a call of the method that has read the logs and removed the container
\* (line 200), whatever the container printed
InitParser ==
    /\ imageExists = TRUE
    /\ manager_instance = TRUE
    /\ image_built = TRUE
    /\ pc = "parse"
    /\ entry = "method"
    /\ request = [python |-> Str(<<"x">>), cpp |-> NoneBlob,
                  java |-> NoneBlob, rust |-> NoneBlob]
    /\ temp_dir = "exists"
    /\ files_written = {"python"}
    /\ container = "removed"
    /\ exit_code = 0
    /\ output \in ParserInputs
    /\ ret = NoRet
    /\ exc = ""
    /\ trace = <<"images.get:found", "mkdtemp", "write", "containers.run",
                 "wait", "logs", "remove">>
    /\ last = [op |-> "run_benchmark", ok |-> FALSE]
    /\ prev = "none"
    /\ nCalls = 1
    /\ RunnerIdle
    /\ ConcIdle
    /\ PromptIdle
    /\ TimeIdle
    /\ StepIdle
    /\ ReportIdle

NextParser ==
    \/ RbParse
    \/ RbFinally

SpecParser == InitParser /\ [][NextParser]_vars

\* a call of the method on an existing manager, the image present, with the
\* container running benchmark.py on the files the call wrote
InitE2E ==
    /\ imageExists = TRUE
    /\ manager_instance = TRUE
    /\ image_built \in BOOLEAN
    /\ pc = "ensure"
    /\ entry = "method"
    /\ request \in E2ERequests
    /\ temp_dir = "unset"
    /\ files_written = {}
    /\ container = "none"
    /\ exit_code = -1
    /\ output = <<>>
    /\ ret = NoRet
    /\ exc = ""
    /\ trace = <<>>
    /\ last = [op |-> "run_benchmark", ok |-> FALSE]
    /\ prev = "none"
    /\ nCalls = 1
    /\ RunnerIdle
    /\ ConcIdle
    /\ PromptIdle
    /\ TimeIdle
    /\ StepIdle
    /\ ReportIdle

NextE2E ==
    \/ RbEnsure
    \/ RbMkdtemp
    \/ RbWrite
    \/ RbLaunchRunner
    \/ RunnerInContainer
    \/ RbWaitRunner
    \/ RbLogsRunner
    \/ RbRemove
    \/ RbParse
    \/ RbHandler
    \/ RbFinally

SpecE2E == InitE2E /\ [][NextE2E]_vars

\* the positions of a call inside run_benchmark
CallPositions == {"idle", "get_manager", "ensure", "mkdtemp", "write",
                  "launch", "wait", "logs", "remove", "parse", "handler",
                  "finally"}

\* the call leaves the position it is at
CallStep == pc # "idle" /\ pc' \in CallPositions /\ pc' # pc

\* Every position of the call is a blocking call that returns or raises:
\* container.wait has timeout=180 (line 188), the other Docker calls have
\* the request timeout of the client, the file operations are local.  So
\* the call does not stay at one position forever.
SpecE2EFair == SpecE2E /\ WF_pc(CallStep)

\* a call of the method that has just started the container on the files of
\* its request: all four sources, or Python and C++ only
InitTimed ==
    /\ imageExists = TRUE
    /\ manager_instance = TRUE
    /\ image_built = TRUE
    /\ pc = "wait"
    /\ entry = "method"
    /\ request \in {[python |-> Str(<<"x">>), cpp |-> Str(<<"x">>),
                     java |-> j, rust |-> j] :
                        j \in {Str(<<"x">>), NoneBlob}}
    /\ temp_dir = "exists"
    /\ files_written = {slot \in Slots : ShouldWrite(slot, request[slot])}
    /\ container = "running"
    /\ exit_code = -1
    /\ output = <<>>
    /\ ret = NoRet
    /\ exc = ""
    /\ trace = <<"images.get:found", "mkdtemp", "write", "containers.run">>
    /\ last = [op |-> "run_benchmark", ok |-> FALSE]
    /\ prev = "none"
    /\ nCalls = 1
    /\ code_dir = files_written
    /\ rpc = "run"
    /\ idx = 1
    /\ results = <<>>
    /\ procs = <<>>
    /\ stdout = <<>>
    /\ ConcIdle
    /\ PromptIdle
    /\ TimeIdle
    /\ StepIdle
    /\ ReportIdle

NextTimed ==
    \/ RunnerSlotTimed
    \/ RunnerEmitTimed
    \/ RbWaitTimed
    \/ RbLogsRunner
    \/ RbRemove
    \/ RbParse
    \/ RbHandler
    \/ RbFinally

SpecTimed == InitTimed /\ [][NextTimed]_vars

\* benchmark.py started in a container whose /app/code holds any subset of
\* the four source files; every start and end of a child process is a step
InitSteps ==
    /\ imageExists = TRUE
    /\ OrchIdle
    /\ code_dir \in SUBSET Slots
    /\ rpc = "run"
    /\ idx = 1
    /\ results = <<>>
    /\ procs = <<>>
    /\ stdout = <<>>
    /\ ConcIdle
    /\ PromptIdle
    /\ TimeIdle
    /\ StepIdle
    /\ ReportIdle

NextSteps ==
    \/ StepExists
    \/ StepStartCompile
    \/ StepEndCompile
    \/ StepStartRun
    \/ StepEndRun
    \/ StepPrint

SpecSteps == InitSteps /\ [][NextSteps]_vars


\* a call of the module-level run_benchmark that has its manager, the image
\* and its workspace, and is about to write the files of its request
InitFiles ==
    /\ imageExists = TRUE
    /\ manager_instance = TRUE
    /\ image_built = TRUE
    /\ pc = "write"
    /\ entry = "module"
    /\ request \in SlotRequests \cup UIRequests
    /\ temp_dir = "exists"
    /\ files_written = {}
    /\ container = "none"
    /\ exit_code = -1
    /\ output = <<>>
    /\ ret = NoRet
    /\ exc = ""
    /\ trace = <<"images.get:found", "mkdtemp">>
    /\ last = [op |-> "run_benchmark", ok |-> FALSE]
    /\ prev = "none"
    /\ nCalls = 1
    /\ RunnerIdle
    /\ ConcIdle
    /\ PromptIdle
    /\ TimeIdle
    /\ StepIdle
    /\ ReportIdle

NextFiles ==
    \/ RbWrite
    \/ RbLaunchRunner
    \/ RunnerInContainer
    \/ RbWaitRunner
    \/ RbLogsRunner
    \/ RbRemove
    \/ RbParse
    \/ RbHandler
    \/ RbFinally

SpecFiles == InitFiles /\ [][NextFiles]_vars

\* execute_and_benchmark right after run_benchmark returned its results
InitReport ==
    /\ imageExists = TRUE
    /\ OrchIdle
    /\ RunnerIdle
    /\ ConcIdle
    /\ PromptIdle
    /\ TimeIdle
    /\ StepIdle
    /\ rep = "called"
    /\ bench_results \in BenchResults
    /\ lang_data = <<>>
    /\ report = <<>>

NextReport ==
    \/ BenchmarkError
    \/ ExtractLanguageData
    \/ GenerateResultsReport

SpecReport == InitReport /\ [][NextReport]_vars




\* ================================================================== claims
Range(seq) == {seq[i] : i \in 1..Len(seq)}

\* a call of run_benchmark has returned (or raised) and no other call was
\* made since
Returned == pc = "idle" /\ last.op = "run_benchmark"

NoBuild(tr) == Range(tr) \cap {"images.build:ok", "images.build:failed"} = {}

\* C1: DockerBenchmarkManager.run_benchmark never lets an exception out;
\* whatever step faults, the call returns a dict with a top-level "error"
\* or the parsed per-language entries.
C1_NeverPropagates ==
    Returned =>
        /\ ret.kind = "return"
        /\ DOMAIN ret.val \cap {"error", "json"} # {}

\* C2 as stated: a workspace directory created by the call no longer exists
\* when the call returns.
C2_Original ==
    (Returned /\ temp_dir # "unset") => temp_dir = "removed"

\* C2 amended: on every exit path of a call that created a workspace,
\* shutil.rmtree has been applied to it as the last step before returning,
\* and the directory is gone unless that removal itself failed.
C2_RmtreeOnEveryExit ==
    (Returned /\ temp_dir # "unset") =>
        /\ Last(trace) \in {"rmtree:ok", "rmtree:failed"}
        /\ temp_dir = "exists" <=> Last(trace) = "rmtree:failed"

C2_Witness ==
    /\ Returned
    /\ temp_dir = "removed"
    /\ container = "none"
    /\ "containers.run" \in Range(trace)
    /\ Last(trace) = "rmtree:ok"

\* C3: once the container was launched, container.remove(force=True) has
\* been called by the time run_benchmark returns, on every path, and the
\* failure paths return {"error": ...}.
C3_RemovedOnEveryPath ==
    (Returned /\ container # "none") =>
        /\ "remove" \in Range(trace)
        /\ exc # "" => ret = Return(ErrorDict("Container execution error"))

\* the commands main() hands to subprocess.run for a slot
ProcsOf(slot) ==
    IF slot = "python" THEN {"python3"}
    ELSE IF slot = "cpp" THEN {"g++", "cpp_program"}
    ELSE IF slot = "rust" THEN {"rustc", "rust_program"}
    ELSE {"javac", "java"}

Started(slot) == Range(procs) \cap ProcsOf(slot) # {}

EveryLanguageResult(P(_)) ==
    /\ \A slot \in DOMAIN results : P(results[slot])
    /\ (Returned /\ ret.kind = "return" /\ "python" \in DOMAIN ret.val) =>
           \A slot \in Slots : P(ret.val[slot])

ShapeAsStated(r) ==
    /\ "execution_time" \in DOMAIN r <=> r.success
    /\ "error" \in DOMAIN r <=> ~r.success
    /\ "output" \in DOMAIN r => r.success

ShapeAmended(r) ==
    /\ ("execution_time" \in DOMAIN r /\ r.execution_time # None) <=> r.success
    /\ "error" \in DOMAIN r <=> ~r.success
    /\ "output" \in DOMAIN r => r.success

C6_AllSlotsReported ==
    /\ rpc # "aborted"
    /\ rpc = "run" => /\ DOMAIN results = {RunOrder[i] : i \in 1..(idx - 1)}
                      /\ ENABLED NextRunner
    /\ rpc = "emitted" => /\ Len(stdout) = 1
                          /\ DOMAIN stdout[1] = Slots

C6_Witness ==
    /\ rpc = "emitted"
    /\ code_dir = {"python", "cpp", "java"}
    /\ ~results["python"].success
    /\ results["python"].error = Msg("msg")
    /\ ~results["cpp"].success
    /\ results["cpp"].error = Msg("Execution timeout")
    /\ results["rust"] = FileNotFound
    /\ results["java"].success

\* C7: concurrent first calls of get_manager() create at most one manager
\* and run at most one image build at a time.
C7_SingleInit ==
    /\ created <= 1
    /\ Cardinality(building) <= 1

\* C8 as stated: an ensure_image_exists right after one that returned True
\* returns True without a build, and a run_benchmark right after it builds
\* nothing.
C8_Original ==
    /\ (pc = "idle" /\ prev = "ensured" /\ last.op = "ensure_image_exists") =>
           last.ok /\ NoBuild(trace)
    /\ (prev = "ensured" /\ last.op = "run_benchmark") => NoBuild(trace)

\* C8 amended: an ensure_image_exists right after one that returned True
\* never builds, and returns True unless the image lookup itself raises an
\* error other than ImageNotFound (it then returns False); a run_benchmark
\* right after a successful ensure builds nothing.
C8_NoSecondBuild ==
    /\ (pc = "idle" /\ prev = "ensured" /\ last.op = "ensure_image_exists") =>
           /\ NoBuild(trace)
           /\ last.ok \/ trace = <<"images.get:error">>
           /\ last.ok => trace = <<"images.get:found">>
    /\ (prev = "ensured" /\ last.op = "run_benchmark") => NoBuild(trace)

C8_Witness ==
    /\ pc = "idle"
    /\ prev = "ensured"
    /\ last = [op |-> "ensure_image_exists", ok |-> TRUE]
    /\ trace = <<"images.get:found">>
    /\ image_built

\* a step in which images.build failed
BuildFailedStep ==
    /\ trace' # <<>>
    /\ Last(trace') = "images.build:failed"
    /\ nCalls' # nCalls \/ trace' # trace

\* C9: a failed build makes build_image / ensure_image_exists return False
\* and leaves image_built as it was (False for a manager that never had the
\* image); a run_benchmark that finds image_built False does the image
\* check again.
C9_FailedBuildRetried ==
    [][ /\ BuildFailedStep =>
             /\ image_built' = image_built
             /\ last'.op \in {"ensure_image_exists", "build_image"} =>
                    ret' = Return(FALSE)
        /\ (pc = "ensure" /\ ~image_built) =>
             /\ Len(trace') = Len(trace) + 1 \/ Len(trace') = Len(trace) + 2
             /\ trace'[Len(trace) + 1] \in
                    {"images.get:found", "images.get:notfound",
                     "images.get:error"}
      ]_vars

C9_Witness ==
    /\ prev = "build_failed"
    /\ last.op = "run_benchmark"
    /\ entry = "method"
    /\ pc = "mkdtemp"
    /\ trace = <<"images.get:notfound", "images.build:ok">>
    /\ image_built

\* a step of run_benchmark in which ensure_image_exists returned False
GateFailedStep ==
    /\ pc = "ensure"
    /\ Len(trace') > Len(trace)
    /\ Last(trace') \in {"images.get:error", "images.build:failed"}

\* C10: when ensure_image_exists fails inside run_benchmark the call
\* returns at once the result with the top-level error and the four slots
\* failing with "Docker setup failed"; no workspace, file or container
\* exists by then.
C10_SetupFailure ==
    [][ GateFailedStep =>
          /\ pc' = "idle"
          /\ ret' = Return(SetupFailed)
          /\ temp_dir' = "unset"
          /\ files_written' = {}
          /\ container' = "none"
          /\ Range(trace') \cap {"mkdtemp", "write", "containers.run"} = {}
      ]_vars

C10_Witness ==
    /\ Returned
    /\ ret.kind = "return"
    /\ "python" \in DOMAIN ret.val
    /\ ret.val = SetupFailed
    /\ temp_dir = "unset"
    /\ Last(trace) = "images.build:failed"

\* a result built on the host whose four slot entries fail with one and the
\* same error
Uniform(v) ==
    /\ Slots \subseteq DOMAIN v
    /\ \A slot \in Slots : /\ ~v[slot].success
                           /\ v[slot].error = v["python"].error

\* the call ended at lines 132-138: ensure_image_exists returned False
GateFailedCall ==
    /\ trace # <<>>
    /\ Last(trace) \in {"images.get:error", "images.build:failed"}

HostDict == Returned /\ ret.kind = "return" /\ "json" \notin DOMAIN ret.val

\* C11 as stated: a returned result whose four slots fail uniformly comes
\* from a failed ensure_image_exists and from nothing else.
C11_Original ==
    (HostDict /\ Uniform(ret.val)) => GateFailedCall

\* C11 amended: among the results built on the host, a uniform four-slot
\* failure is returned in two cases only: the failed image gate ("Docker
\* setup failed" under "Failed to build Docker image"), and the module-level
\* run_benchmark catching an exception of get_manager() or of the method
\* (manager construction, mkdtemp), each slot then carrying str(e).  Every
\* other fault path returns a dict without slot entries.
C11_UniformFailure ==
    HostDict =>
        IF Uniform(ret.val)
        THEN \/ GateFailedCall /\ ret.val = SetupFailed
             \/ /\ entry = "module"
                /\ \/ /\ trace = <<>>
                      /\ ret.val = WrapperError("Docker connection failed")
                   \/ /\ trace # <<>> /\ Last(trace) = "mkdtemp"
                      /\ temp_dir = "unset"
                      /\ ret.val = WrapperError("mkdtemp failed")
        ELSE /\ DOMAIN ret.val \cap Slots = {}
             /\ ~GateFailedCall

C11_Witness ==
    /\ Returned
    /\ entry = "module"
    /\ ret = Return(WrapperError("Docker connection failed"))
    /\ trace = <<>>
    /\ ~manager_instance

\* the call went through lines 188-198 without an exception and reached the
\* parser
Parsed ==
    /\ Returned
    /\ exc = ""
    /\ "remove" \in Range(trace)

\* C12 as stated: when neither strategy extracts a JSON value, the call
\* returns {error: "Failed to parse benchmark results", raw_output,
\* exit_code} with the complete captured output and the exit code.
C12_Original ==
    (Parsed /\ ParseOutput(output) = NoneJson) =>
        ret = Return([error |-> Msg("Failed to parse benchmark results"),
                      raw_output |-> output, exit_code |-> exit_code])

\* C12 amended: when neither strategy extracts a JSON value, the call
\* returns {error: "Failed to parse benchmark results", output, exit_code}:
\* the complete captured output is under the key "output", next to the
\* container's exit code; the result is never empty.
C12_ParseFailure ==
    (Parsed /\ ParseOutput(output) = NoneJson) =>
        ret = Return([error |-> Msg("Failed to parse benchmark results"),
                      output |-> output, exit_code |-> exit_code])

C12_Witness ==
    /\ Parsed
    /\ output = <<"{", "d", "\n">>
    /\ exit_code = 1
    /\ ret.kind = "return"
    /\ DOMAIN ret.val = {"error", "output", "exit_code"}
    /\ ret.val.output = <<"{", "d", "\n">>
    /\ ret.val.exit_code = 1

\* the last line of a captured text; print() ends it with one line break
FinalLine(out) ==
    LET body == IF out # <<>> /\ Last(out) = "\n"
                THEN SubSeq(out, 1, Len(out) - 1) ELSE out
    IN Last(SplitLines(body))

\* the parser has run on the captured output
ParserDone ==
    /\ pc \in {"finally", "idle"}
    /\ last.op = "run_benchmark"
    /\ exc = ""
    /\ "remove" \in Range(trace)

\* C13: when the final line of the captured output is the one-line
\* serialization of a result object, the call returns exactly that object,
\* whatever lines precede it, lines starting with "{" included.
C13_FinalLineRecovered ==
    ParserDone =>
        \A v \in Objects :
            FinalLine(output) = JsonDumps(v) => ret = Return([json |-> v])

C13_Witness ==
    /\ ParserDone
    /\ output = Join(<< JsonDumps(<<"{", "k", "}">>), <<"{", "d">>,
                        JsonDumps(<<"{", "k", "j", "}">>), <<>> >>)
    /\ ret = Return([json |-> <<"{", "k", "j", "}">>])

\* a diagnostic line: blank, or holding text that is no part of an object
Diag(line) == line = <<>> \/ HasTok(line, "d")

\* block is the object O written over several lines
Layout(O, block) ==
    /\ Len(block) >= 2
    /\ block[1] # <<>> /\ block[Len(block)] # <<>>
    /\ \A n \in 1..Len(block) : ~HasTok(block[n], "d")
    /\ NoWS(Join(block)) = NoWS(JsonDumps(O))

\* the captured text is: diagnostic lines, O over the lines i..j,
\* diagnostic lines; and no line parses by itself
Spread(O, lines, i, j) ==
    /\ i < j
    /\ \A n \in 1..(i - 1) : Diag(lines[n])
    /\ \A n \in (j + 1)..Len(lines) : Diag(lines[n])
    /\ Layout(O, SubSeq(lines, i, j))
    /\ Strategy1(OutputLines(Join(lines))) = NoneJson

\* the lines are cut between JSON tokens only: no member is in two pieces
TokenSplit(block) ==
    \A n \in 1..Len(block) :
        ~HasTok(Merge(block[n]), "<") /\ ~HasTok(Merge(block[n]), ">")

\* C14 as stated: whatever diagnostic lines stand before and after an
\* object spread over several lines, the block scan returns that object.
C14_Original ==
    ParserDone =>
        LET lines == SplitLines(output) IN
        \A O \in Objects : \A i, j \in 1..Len(lines) :
            Spread(O, lines, i, j) => ret = Return([json |-> O])

\* C14 amended: the block scan returns the object when the lines are cut
\* between JSON tokens, no diagnostic line before the object holds "{" and
\* none after it holds "}"; otherwise the block from the first "{" line to
\* the last "}" line is not valid JSON and the call returns the
\* parse-failure result.
C14_BlockScan ==
    ParserDone =>
        LET lines == SplitLines(output) IN
        \A O \in Objects : \A i, j \in 1..Len(lines) :
            Spread(O, lines, i, j) =>
                IF /\ TokenSplit(SubSeq(lines, i, j))
                   /\ \A n \in 1..(i - 1) : ~HasTok(lines[n], "{")
                   /\ \A n \in (j + 1)..Len(lines) : ~HasTok(lines[n], "}")
                THEN ret = Return([json |-> O])
                ELSE /\ ret.kind = "return"
                     /\ DOMAIN ret.val = {"error", "output", "exit_code"}
                     /\ ret.val.output = output

C14_Witness ==
    /\ ParserDone
    /\ output = Join(<< <<"d">>, <<"{">>, <<"<", ">", "}">>, <<"d">> >>)
    /\ ret = Return([json |-> <<"{", "k", "}">>])

\* no slot of the request has content: every blob is None or empty
AllEmpty(req) == \A slot \in Slots : req[slot].none \/ req[slot].s = <<>>

\* the call went through without a fault of Docker or of the filesystem
NoFault ==
    /\ Returned
    /\ temp_dir # "unset"
    /\ container # "none"
    /\ exc = ""
    /\ Range(trace) \cap {"images.get:error", "images.build:failed"} = {}
    /\ \A slot \in Slots : ShouldWrite(slot, request[slot])
                               => slot \in files_written

\* the result returned for four "m" members: each slot is
\* {success: false, error: "File not found"}
FourMissingAsStated ==
    [json |-> <<"{", "m", "m", "m", "m", "}">>]

\* the result returned for four "n" members: each slot is
\* {success: false, error: "File not found", execution_time: null}
FourMissing ==
    [json |-> <<"{", "n", "n", "n", "n", "}">>]

WellFormedResult(r) ==
    IF r.success
    THEN /\ r.execution_time # None
         /\ r.execution_time[1] >= 0
         /\ "output" \in DOMAIN r
    ELSE r.error # <<>>

\* C16: every failing LanguageResult, on any path, has a non-empty error
\* string (the catch-all handler reporting str(e) and failures with empty
\* stderr included); every successful one has execution_time >= 0 and an
\* output string.
C16_NonEmptyError == EveryLanguageResult(WellFormedResult)

\* the last call was a get_compile_command, of the module or of the manager
AskedCommand ==
    /\ pc = "idle"
    /\ last.op \in {"get_compile_command", "manager.get_compile_command"}

\* the command the table holds for a name, "" for a name it does not hold
TableEntry(lang) ==
    IF lang \in { <<"c", "p", "p">>, <<"C", "P", "P">> }
    THEN "g++ -O3 -std=c++17 -march=native code.cpp -o cpp_program"
    ELSE IF lang \in { <<"j", "a", "v", "a">>, <<"J", "a", "v", "a">> }
    THEN "javac Main.java"
    ELSE IF lang \in { <<"r", "u", "s", "t">>, <<"R", "u", "s", "t">> }
    THEN "rustc -C opt-level=3 -C target-cpu=native code.rs -o rust_program"
    ELSE ""

\* C17: get_compile_command returns the table entry of a supported
\* compiled language (cpp, java, rust, in any case of letters), the empty
\* string for every other name, and never raises; the module-level function
\* returns the empty string when the manager cannot be created.
C17_CompileCommand ==
    AskedCommand =>
        /\ ret.kind = "return"
        /\ ret.val = IF manager_instance THEN TableEntry(language) ELSE ""
        /\ ~manager_instance => last.op = "get_compile_command"

C17_Witness ==
    /\ AskedCommand
    /\ last.op = "get_compile_command"
    /\ language = <<"R", "u", "s", "t">>
    /\ manager_instance
    /\ ret = Return("rustc -C opt-level=3 -C target-cpu=native code.rs -o rust_program")

\* C18: on the normal path and on the exception path container.remove is
\* invoked only right after container.logs was called on the container,
\* and the removal does not touch the output that the parser then gets.
C18_LogsBeforeRemove ==
    [][ /\ \A k \in (Len(trace) + 1)..Len(trace') :
              trace'[k] = "remove" => k > 1 /\ trace'[k - 1] = "logs"
        /\ pc \in {"remove", "parse"} => output' = output
        /\ pc = "parse" =>
              /\ Len(trace) >= 2
              /\ trace[Len(trace) - 1] = "logs"
              /\ trace[Len(trace)] = "remove"
      ]_vars

C18_Witness ==
    /\ Returned
    /\ exc = "timeout"
    /\ container = "removed"
    /\ Len(trace) >= 4
    /\ SubSeq(trace, Len(trace) - 3, Len(trace))
           = <<"wait", "logs", "remove", "rmtree:ok">>

\* the call returned after a container was started
ReturnedAfterLaunch == Returned /\ container # "none"

C20_UnitTimeoutCovers ==
    /\ rpc = "emitted" => clock <= UnitTimeout
    /\ exc # "timeout"

\* the slots that have a compile stage
Compiled == Slots \ {"python"}

\* the entries of the log of kind e about the command cmd of a slot
LogOf(e, slot, cmd) ==
    {i \in 1..Len(log) :
        log[i].e = e /\ log[i].slot = slot /\ log[i].cmd = cmd}

\* the program of a compiled slot is started only after the slot's compiler
\* has ended with exit code 0
RunAfterCompile(slot) ==
    \A i \in LogOf("start", slot, Program(slot)) :
        \E j \in LogOf("end", slot, Compiler(slot)) :
            j < i /\ log[j].obs.outcome = "ok"

\* the compiler of the slot ended with outcome o: the result is the one
\* given and the program was never started
CompileEnded(slot, o, result(_)) ==
    \A j \in LogOf("end", slot, Compiler(slot)) :
        log[j].obs.outcome = o =>
            /\ slot \in DOMAIN results
            /\ results[slot] = result(log[j].obs)
            /\ LogOf("start", slot, Program(slot)) = {}

RunEnded(slot, o, result(_, _)) ==
    \A j \in LogOf("end", slot, Program(slot)) :
        log[j].obs.outcome = o =>
            \E i \in LogOf("start", slot, Program(slot)) :
                /\ i < j
                /\ slot \in DOMAIN results
                /\ results[slot] = result(log[j].obs, log[j].at - log[i].at)

Succeeded(r, t) ==
    [success |-> TRUE, execution_time |-> Float(t), output |-> strip(r.out)]

OrderOf(slot) == CHOOSE k \in 1..4 : RunOrder[k] = slot

\* the slots whose result was recorded, in the order of the recording
Recorded ==
    LET RECURSIVE F(_)
        F(i) == IF i > Len(log) THEN <<>>
                ELSE (IF log[i].e = "record" THEN <<log[i].slot>> ELSE <<>>)
                     \o F(i + 1)
    IN F(1)

\* C23: main() processes the slots one after the other in the order
\* python, cpp, rust, java: a compiler or a program of a slot is started
\* only after the result of every earlier slot was recorded, and two child
\* processes are never alive at the same time.
C23_Sequential ==
    /\ Cardinality(alive) <= 1
    /\ Recorded = SubSeq(RunOrder, 1, Len(Recorded))
    /\ \A i \in 1..Len(log) :
         log[i].e = "start" =>
            /\ \A k \in 1..(OrderOf(log[i].slot) - 1) :
                 \E j \in 1..(i - 1) :
                    log[j].e = "record" /\ log[j].slot = RunOrder[k]
            /\ \A j \in 1..(i - 1) : log[j].e = "record" =>
                 OrderOf(log[j].slot) < OrderOf(log[i].slot)
            /\ \A j \in 1..(i - 1) : log[j].e = "start" =>
                 \E n \in (j + 1)..(i - 1) :
                    log[n].e = "end" /\ log[n].cmd = log[j].cmd

C23_Witness ==
    /\ stage = "running"
    /\ alive = {"java"}
    /\ procs = <<"python3", "g++", "cpp_program", "rustc", "rust_program",
                 "javac", "java">>
    /\ Recorded = <<"python", "cpp", "rust">>
    /\ results["rust"].success

\* the entries of the log that write to a channel
Writes(ch) == {i \in 1..Len(log) : log[i].e = ch}

\* the number of line ends in a text
LineEnds(text) == Cardinality({n \in 1..Len(text) : text[n] = "\n"})

\* everything main() wrote, as container.logs() returns it
LogText ==
    LET RECURSIVE F(_)
        F(i) == IF i > Len(log) THEN <<>> ELSE log[i].text \o F(i + 1)
    IN F(1)

\* C24: main() writes the JSON of the results once, as one line, when all
\* four slots have their result; every diagnostic line goes to stderr and
\* before that line, nothing goes to standard output before it and nothing
\* to either channel after it.
C24_ResultLineLast ==
    /\ Cardinality(Writes("stdout")) = IF rpc = "emitted" THEN 1 ELSE 0
    /\ Len(stdout) = Cardinality(Writes("stdout"))
    /\ \A i \in Writes("stdout") :
         /\ i = Len(log)
         /\ log[i].text = JsonLine(results) \o <<"\n">>
         /\ LineEnds(log[i].text) = 1
         /\ DOMAIN results = Slots
         /\ stdout[1] = results
         /\ Recorded = RunOrder
         /\ alive = {}
         /\ \A j \in Writes("stderr") : j < i
    /\ \A j \in Writes("stderr") : log[j].text = <<"d", "\n">>
    /\ rpc = "emitted" => ~ENABLED NextSteps
    /\ stage = "check" => LogText = ContainerLogs

C24_Witness ==
    /\ rpc = "emitted"
    /\ code_dir = {"python", "java"}
    /\ Cardinality(Writes("stderr")) = 2
    /\ log[Len(log)].e = "stdout"
    /\ log[Len(log)].text = <<"{", "s", " ", "n", " ", "n", " ", "f", "}", "\n">>

\* the call has written its files and started the container
FilesWritten == "containers.run" \in Range(trace) /\ container # "none"

\* the member of a slot in the parsed result of the call
MemberOf(slot) == ret.val.json[1 + OrderOf(slot)]

\* the blob is not None and not the empty string
NonEmpty(b) == ~b.none /\ Len(b.s) > 0

\* the blob is not None and holds a character that is not white space
HasText(b) == ~b.none /\ \E i \in 1..Len(b.s) : b.s[i] \notin WS

\* the blob begins with the comment marker
Commented(b) == ~b.none /\ Len(b.s) >= 2 /\ b.s[1] = "/" /\ b.s[2] = "/"

\* the files written are those of the slots that are present, present(slot)
\* saying which; an absent slot has no file in /app/code and main() reports
\* "File not found" for it
WritesPresent(present(_)) ==
    FilesWritten =>
        /\ files_written = {slot \in Slots : present(slot)}
        /\ code_dir = Mounted(files_written)
        /\ \A slot \in Slots \ files_written :
             /\ slot \in DOMAIN results =>
                    /\ ~results[slot].success
                    /\ results[slot].error = Msg("File not found")
                    /\ ~Started(slot)
             /\ (Returned /\ "json" \in DOMAIN ret.val) =>
                    MemberOf(slot) = "n"

\* C25 as stated: the file of a slot is written iff the slot is present,
\* that is its blob is non-empty and has no leading comment marker; an
\* absent slot has no file and gets "File not found" from the runner.
C25_Original ==
    WritesPresent(LAMBDA slot : /\ NonEmpty(request[slot])
                                /\ ~Commented(request[slot]))

\* C25 amended: when no write fails, the file of the Python slot is written
\* iff its blob holds a character that is not white space (a leading "//"
\* does not matter for it), and the file of a compiled slot iff its blob
\* holds such a character and does not begin with "//" at its very first
\* character; the names are those main() looks for; a slot without a file
\* gets "File not found" from the runner and nothing is started for it.
C25_FilesWritten ==
    WritesPresent(LAMBDA slot : /\ HasText(request[slot])
                                /\ slot = "python"
                                     \/ ~Commented(request[slot]))

C25_Witness ==
    /\ FilesWritten
    /\ Returned
    /\ request["python"] = Str(<<"/", "/", "e">>)
    /\ files_written = {"python"}
    /\ ret.kind = "return"
    /\ "json" \in DOMAIN ret.val
    /\ MemberOf("python") = "f"
    /\ MemberOf("cpp") = "n"

\* what lines 200-247 return for the captured output and the exit code
ParsedResult(out, code) ==
    IF ParseOutput(out) = NoneJson THEN ParseFailure(out, code)
    ELSE [json |-> ParseOutput(out)]

\* C26: a failure of the teardown does not change what run_benchmark
\* returns: whether or not container.remove raised after the logs were
\* read, and whether or not the workspace could be removed, the call
\* returns the result parsed from the logs (or the parse-failure result)
\* and raises nothing.
C26_TeardownSwallowed ==
    /\ [](Parsed => ret = Return(ParsedResult(output, exit_code)))
    /\ [][ /\ pc = "remove" =>
                /\ pc' = "parse"
                /\ <<ret, output, exit_code, exc>>' =
                       <<ret, output, exit_code, exc>>
           /\ pc = "finally" => pc' = "idle" /\ ret' = ret
         ]_vars

C26_Witness ==
    /\ Parsed
    /\ container = "exited"
    /\ temp_dir = "exists"
    /\ SubSeq(trace, Len(trace) - 2, Len(trace))
           = <<"logs", "remove", "rmtree:failed">>
    /\ ret = Return([json |-> <<"{", "k", "}">>])

\* C27: on the manager of the application, whatever calls of
\* ensure_image_exists, build_image, run_benchmark and cleanup were made and
\* however each ended, image_built = True only while the image exists; so
\* a run_benchmark that finds the image missing looks the image up before
\* anything else.
C27_FlagImpliesImage ==
    /\ [](image_built => imageExists)
    /\ [][ (pc = "ensure" /\ ~imageExists) =>
              /\ Len(trace') > Len(trace)
              /\ trace'[Len(trace) + 1] \in {"images.get:notfound",
                                             "images.get:error"}
         ]_vars

C27_Witness ==
    /\ pc = "idle"
    /\ last.op = "cleanup"
    /\ prev = "build_failed"
    /\ trace = <<"images.remove">>
    /\ manager_instance
    /\ image_built
    /\ imageExists

\* benchmark.py:12, 60, 111: the compile_cmd of each function, source_path
\* being the file main() passes
compile_cmd ==
    [cpp |-> <<"g++", "-O2", "/app/code/code.cpp", "-o",
               "/app/code/cpp_program">>,
     rust |-> <<"rustc", "-O", "/app/code/code.rs", "-o",
                "/app/code/rust_program">>,
     java |-> <<"javac", "/app/code/Main.java">>]

\* the compilers run in /app/code or are given paths into it: the file a
\* word of a command names, relative to /app/code
Relative(word) ==
    IF word = "/app/code/code.cpp" THEN "code.cpp"
    ELSE IF word = "/app/code/cpp_program" THEN "cpp_program"
    ELSE IF word = "/app/code/code.rs" THEN "code.rs"
    ELSE IF word = "/app/code/rust_program" THEN "rust_program"
    ELSE IF word = "/app/code/Main.java" THEN "Main.java"
    ELSE word

\* str.split() of the commands of the table; "" has no words
Words(cmd) ==
    IF cmd = "g++ -O3 -std=c++17 -march=native code.cpp -o cpp_program"
    THEN <<"g++", "-O3", "-std=c++17", "-march=native", "code.cpp", "-o",
           "cpp_program">>
    ELSE IF cmd = "javac Main.java"
    THEN <<"javac", "Main.java">>
    ELSE IF cmd = "rustc -C opt-level=3 -C target-cpu=native code.rs -o rust_program"
    THEN <<"rustc", "-C", "opt-level=3", "-C", "target-cpu=native",
           "code.rs", "-o", "rust_program">>
    ELSE <<>>

\* llm_porter.py:58: the names port_all_languages passes on, with the slot
\* each is benchmarked in
PortedSlot(lang) ==
    IF lang = <<"C", "+", "+">> THEN "cpp"
    ELSE IF lang = <<"J", "a", "v", "a">> THEN "java"
    ELSE IF lang = <<"R", "u", "s", "t">> THEN "rust"
    ELSE "none"

\* the command the prompt announces is the one the runner executes
SameCommand(announced, argv) ==
    Words(announced) = [i \in 1..Len(argv) |-> Relative(argv[i])]

\* C28: for C++, Java and Rust, the names port_all_languages passes, the
\* command get_compile_command returns for the prompt is the command
\* benchmark.py compiles that language with.
C28_PromptMatchesRunner ==
    (AskedCommand /\ last.op = "get_compile_command"
        /\ PortedSlot(language) # "none") =>
        /\ ret.kind = "return"
        /\ SameCommand(ret.val, compile_cmd[PortedSlot(language)])

\* the blob of a compiled slot is one of the texts the porter and the UI
\* put there in place of code
Placeholder(slot, b) ==
    /\ ~b.none
    /\ \/ b.s = NoPythonCode
       \/ b.s = WillAppear(LangName[slot])
       \/ startswith(b.s, ErrorPorting(LangName[slot], <<>>))

\* C29: a compiled slot that holds "// No Python code provided",
\* "// Error porting to <lang>: ..." or "// <lang> code will appear here
\* after porting" is treated as not present: its text is never written to
\* a source file, nothing is compiled or run for it, and the result the
\* runner gives for it is "File not found".
C29_PlaceholdersSkipped ==
    \A slot \in Compiled :
        Placeholder(slot, request[slot]) =>
            /\ slot \notin files_written
            /\ slot \notin code_dir
            /\ ~Started(slot)
            /\ slot \in DOMAIN results => results[slot] = FileNotFound
            /\ (Returned /\ ret.kind = "return" /\ "json" \in DOMAIN ret.val)
                   => MemberOf(slot) = "n"

C29_Witness ==
    /\ Returned
    /\ request["python"] = Str(<<"x">>)
    /\ request["cpp"] = Str(ErrorPorting("C++", <<"t">>))
    /\ request["java"] = Str(<<"\n", "x", "\n">>)
    /\ request["rust"] = Str(ErrorPorting("Rust", <<"t">>))
    /\ files_written = {"python", "java"}
    /\ procs = <<"python3", "javac", "java">>
    /\ ret.kind = "return"
    /\ "json" \in DOMAIN ret.val
    /\ ret.val.json = <<"{", "s", "n", "n", "s", "}">>

\* the languages whose result run_benchmark reported as a success
SuccessfulLanguages ==
    {slot \in DOMAIN bench_results \cap Slots : bench_results[slot].success}

\* the returned report holds the fixed line t
Says(t) ==
    \E i \in 1..Len(report[2]) :
        report[2][i].kind = "text" /\ report[2][i].text = t

\* the returned report ranks the language of the slot
RanksLanguage(slot) ==
    \E i \in 1..Len(report[2]) :
        report[2][i].kind = "rank" /\ report[2][i].name = lang_config[slot]

\* C30: the report of _generate_results_report states "No successful
\* executions" / "All languages failed to execute" only when no language
\* result is successful, and whenever at least one language succeeded it
\* contains a performance ranking that lists every successful language.
C30_ReportMatchesResults ==
    (rep = "done" /\ ~OnlyError(bench_results)) =>
        /\ (\/ Says("**No successful executions**")
            \/ Says("All languages failed to execute. Check the code for errors."))
               => SuccessfulLanguages = {}
        /\ SuccessfulLanguages # {} =>
               /\ Says("### Performance Ranking")
               /\ \A slot \in SuccessfulLanguages : RanksLanguage(slot)

====
